---- MODULE Spec2Model ----
(***************************************************************************)
(* notify-done: the kernel-assisted daemon's userspace pipeline.           *)
(*                                                                         *)
(*   ProcessTracker   (notify-done-daemon/src/process_tracker.rs)          *)
(*   EffectiveConfig  (notify-done-daemon/src/config.rs)                   *)
(*   SessionDiscovery (notify-done-daemon/src/user_session.rs)             *)
(*   Notifier         (notify-done-daemon/src/notifier.rs)                 *)
(*   EventProcessor   (notify-done-daemon/src/event_processor.rs)          *)
(*                                                                         *)
(* Time.  Kernel timestamps (u64 nanoseconds) and wall-clock instants are  *)
(* counted in clock ticks; TicksPerSec ticks make one second, so that      *)
(* Duration::as_secs is the integer division by TicksPerSec.  The tick     *)
(* stands for the nanosecond: 12 s in nanoseconds does not fit the model   *)
(* checker's integers.                                                     *)
(*                                                                         *)
(* Strings are sequences of one-character strings, so that prefix and      *)
(* suffix tests can be computed.  The fixed-size name fields of the        *)
(* records are sequences of COMM_LEN / FILENAME_LEN bytes padded with NUL. *)
(***************************************************************************)
EXTENDS Integers, Sequences, FiniteSets, TLC

VARIABLES
    \* ---- ProcessTracker
    processes,      \* HashMap<u32, TrackedProcess>: a set of [k, v] pairs
    history,        \* Vec<CompletedProcess>
    max_history,    \* usize, fixed at construction
    \* ---- EventProcessor
    config,         \* DaemonConfig, fixed at construction
    user_configs,   \* HashMap<u32, Option<UserConfig>>
    sessions,       \* SessionDiscovery.sessions: HashMap<u32, UserSession>
    usernames,      \* SessionDiscovery.usernames: HashMap<u32, String>
    \* ---- environment
    now,            \* the wall clock (std::time::Instant), in ticks
    \* ---- observation of the last step (no influence on the program)
    lastStep,       \* the operation that produced this state, and its input
    returned,       \* what the last on_exit returned (Option<CompletedProcess>)
    pipeline,       \* what the last handle_exit did after on_exit, in order
    lastRecord,     \* per tgid: the most recent record handled for it, or that
                    \* a stale sweep evicted the entry its last exec made
    completions,    \* the CompletedProcess values returned so far, in order
    served,         \* the uids a completion was processed for since the last
                    \* cleanup() (or since construction)
    undiscovered,   \* the uids whose session discovery failed since the last
                    \* cleanup() (or since construction)
    \* ---- kernel side and the drain loop
    ring,           \* the EVENTS ring buffer: the submitted records, oldest first,
                    \* each [n, data, note]: data the bytes; n (its rank among
                    \* the records submitted) and note are observations
    draining,       \* is a call of process_events in progress
    mainloop,       \* main's event loop: where it is (pc), the interrupt it has
                    \* yet to see (sigint), the exit code once it has returned
    \* ---- observation of the kernel side (no influence on the program)
    produced,       \* how many records have been submitted so far
    taken,          \* rank and note of the record process_events took last
    lastExec,       \* per tgid: what became of its last exec firing since its
                    \* last exit firing (delivered as record n, or dropped)
    lostExit,       \* per tgid: the rank of the delivered exec record whose
                    \* exit firing was dropped, 0 when there is none
    applied,        \* per tgid: the rank of the exec record its entry of the
                    \* active table was made from, 0 when it has no entry
    \* ---- the local daemon of the nd wrapper (src/src/daemon)
    daemons,        \* per daemon process: where run_server is (pc), its
                    \* TaskRegistry, the value of its shutdown watch channel
    socket,         \* the file at socket_path(): none, or the listener it is bound to
    history_file,   \* the file at history_path()
    conns,          \* per client: its connection, the lines in flight, where the
                    \* handle_client task is, the responses the client received
    starts,         \* per `nd daemon start` invocation: where handle_daemon is
    \* ---- decision function harness
    fnIn,           \* inputs of the decision function under test
    fnOut           \* its result

trackerVars == <<processes, history, max_history>>
processorVars == <<config, user_configs, sessions, usernames>>
ghostVars == <<lastStep, returned, pipeline, lastRecord, completions, served,
              undiscovered>>
kernelVars == <<ring, draining, produced, taken, lastExec, lostExit, applied, mainloop>>
localVars == <<daemons, socket, history_file, conns, starts>>
fnVars == <<fnIn, fnOut>>
vars == <<processes, history, max_history, config, user_configs, sessions, usernames, now,
          lastStep, returned, pipeline, lastRecord, completions, served, undiscovered,
          ring, draining, produced, taken, lastExec, lostExit, applied, mainloop,
          daemons, socket, history_file, conns, starts, fnIn, fnOut>>

(***************************************************************************)
(* Bounds of the model                                                     *)
(***************************************************************************)
TicksPerSec == 2
MaxCompletions == 3
MaxCap == 2
MaxDaemonCompletions == 2

(***************************************************************************)
(* Option, strings, bytes                                                  *)
(***************************************************************************)
None == [some |-> FALSE]
Some(x) == [some |-> TRUE, val |-> x]

Min(S) == CHOOSE x \in S : \A y \in S : x <= y

NUL == "NUL"
BadByte == "0xFF"

COMM_LEN == 16
FILENAME_LEN == 256

\* a name written into a fixed-size field of n bytes, NUL-padded
Pad(s, n) == [i \in 1..n |-> IF i <= Len(s) THEN s[i] ELSE NUL]

InvalidStr == <<"<", "i", "n", "v", "a", "l", "i", "d", ">">>

\* bytes.iter().position(|&b| b == 0), scanning from index i; cap when none
RECURSIVE NulPosition(_, _, _)
NulPosition(bytes, i, cap) ==
    IF i > cap THEN cap
    ELSE IF bytes[i] = NUL THEN i - 1
    ELSE NulPosition(bytes, i + 1, cap)

\* from_utf8(&bytes[..len]).unwrap_or("<invalid>"), len the position of the first NUL
FieldStr(bytes, cap) ==
    LET len == NulPosition(bytes, 1, cap)
        pre == SubSeq(bytes, 1, len)
    IN  IF \E i \in 1..len : pre[i] = BadByte THEN InvalidStr ELSE pre

comm_str(event) == FieldStr(event.comm, COMM_LEN)
filename_str(event) == FieldStr(event.filename, FILENAME_LEN)

(***************************************************************************)
(* std::collections::HashMap as a set of [k, v] pairs                      *)
(***************************************************************************)
HashMapKeys(m) == {e.k : e \in m}
HashMapContainsKey(m, key) == \E e \in m : e.k = key
HashMapGet(m, key) ==
    IF \E e \in m : e.k = key THEN Some((CHOOSE e \in m : e.k = key).v) ELSE None
HashMapInsert(m, key, value) == {e \in m : e.k # key} \cup {[k |-> key, v |-> value]}
HashMapRemove(m, key) == {e \in m : e.k # key}

(***************************************************************************)
(* ProcessTracker                                                          *)
(***************************************************************************)
\* mutant: the new entry is added beside the one the tgid already has
on_exec_no_replace(procs, event, t) ==
    procs \cup {[k |-> event.tgid,
                 v |-> [pid |-> event.pid, tgid |-> event.tgid, ppid |-> event.ppid,
                        uid |-> event.uid, comm |-> comm_str(event),
                        filename |-> filename_str(event), start_time |-> t,
                        start_timestamp_ns |-> event.timestamp_ns]]}

\* ProcessTracker::on_exec: the table after the call at wall-clock instant t
on_exec(procs, event, t) ==
    LET tracked == [pid |-> event.pid,
                    tgid |-> event.tgid,
                    ppid |-> event.ppid,
                    uid |-> event.uid,
                    comm |-> comm_str(event),
                    filename |-> filename_str(event),
                    start_time |-> t,
                    start_timestamp_ns |-> event.timestamp_ns]
    IN  HashMapInsert(procs, event.tgid, tracked)

\* mutant: the subtraction without the comparison that guards it
exit_duration_unguarded(event, tracked, t) ==
    event.timestamp_ns - tracked.start_timestamp_ns

\* the duration on_exit computes for a tracked entry, at wall-clock instant t
exit_duration(event, tracked, t) ==
    IF event.timestamp_ns > tracked.start_timestamp_ns
    THEN event.timestamp_ns - tracked.start_timestamp_ns
    ELSE t - tracked.start_time

\* mutant: identity taken from the exit record instead of the tracked entry
completed_from_exit(tracked, event, duration) ==
    [pid |-> event.pid,
     tgid |-> event.tgid,
     uid |-> event.uid,
     comm |-> comm_str(event),
     filename |-> tracked.filename,
     exit_code |-> event.exit_code,
     duration |-> duration]

\* the CompletedProcess on_exit builds
completed_process(tracked, event, duration) ==
    [pid |-> tracked.pid,
     tgid |-> tracked.tgid,
     uid |-> tracked.uid,
     comm |-> tracked.comm,
     filename |-> tracked.filename,
     exit_code |-> event.exit_code,
     duration |-> duration]

\* mutant: the newest entry is dropped instead of the oldest
push_history_drop_newest(hist, cap, completed) ==
    LET pushed == Append(hist, completed)
    IN  IF Len(pushed) > cap THEN SubSeq(pushed, 1, Len(pushed) - 1) ELSE pushed

\* history.push(completed); if history.len() > max_history { history.remove(0) }
push_history(hist, cap, completed) ==
    LET pushed == Append(hist, completed)
    IN  IF Len(pushed) > cap THEN Tail(pushed) ELSE pushed

\* mutant: the entry is looked up but left in the table
on_exit_keeps_entry(procs, hist, cap, event, t) ==
    LET found == HashMapGet(procs, event.tgid)
    IN  IF ~found.some
        THEN [processes |-> procs, history |-> hist, result |-> None]
        ELSE LET completed == completed_process(found.val, event,
                                                exit_duration(event, found.val, t))
             IN  [processes |-> procs,
                  history |-> push_history(hist, cap, completed),
                  result |-> Some(completed)]

\* mutant: an orphan exit is reported as a completion of an unknown process
on_exit_reports_orphan(procs, hist, cap, event, t) ==
    LET found == HashMapGet(procs, event.tgid)
        tracked == IF found.some THEN found.val
                   ELSE [pid |-> event.pid, tgid |-> event.tgid, ppid |-> 0,
                         uid |-> event.uid, comm |-> comm_str(event),
                         filename |-> <<>>, start_time |-> t,
                         start_timestamp_ns |-> event.timestamp_ns]
        completed == completed_process(tracked, event, exit_duration(event, tracked, t))
    IN  [processes |-> HashMapRemove(procs, event.tgid),
         history |-> push_history(hist, cap, completed),
         result |-> Some(completed)]

\* ProcessTracker::on_exit: the table, the history and the value returned
on_exit(procs, hist, cap, event, t) ==
    LET found == HashMapGet(procs, event.tgid)
    IN  IF ~found.some
        THEN [processes |-> procs, history |-> hist, result |-> None]
        ELSE LET completed == completed_process(found.val, event,
                                                exit_duration(event, found.val, t))
             IN  [processes |-> HashMapRemove(procs, event.tgid),
                  history |-> push_history(hist, cap, completed),
                  result |-> Some(completed)]

\* mutant: an entry whose age equals max_age is evicted too
cleanup_stale_inclusive(procs, max_age, t) ==
    {e \in procs : ~((t - e.v.start_time) >= max_age)}

\* ProcessTracker::cleanup_stale: retain the entries whose age is <= max_age
cleanup_stale(procs, max_age, t) ==
    {e \in procs : ~((t - e.v.start_time) > max_age)}

(***************************************************************************)
(* Command names and patterns used as inputs                               *)
(***************************************************************************)
ls == <<"l", "s">>
make == <<"m", "a", "k", "e">>
cargo == <<"c", "a", "r", "g", "o">>
sh == <<"s", "h">>
npm == <<"n", "p", "m">>
npm_run == <<"n", "p", "m", "-", "r", "u", "n">>
yarn == <<"y", "a", "r", "n">>
unittest == <<"u", "n", "i", "t", "t", "e", "s", "t">>
npm_star == <<"n", "p", "m", "*">>
star_test == <<"*", "t", "e", "s", "t">>

(***************************************************************************)
(* DaemonConfig, UserConfig, EffectiveConfig                               *)
(***************************************************************************)
default_min_uid == 1000
default_threshold_seconds == 10

\* default_ignore_patterns()
default_ignore_patterns ==
    <<<<"v", "i", "m">>,
       <<"n", "v", "i", "m">>,
       <<"n", "a", "n", "o">>,
       <<"l", "e", "s", "s">>,
       <<"m", "o", "r", "e">>,
       <<"m", "a", "n">>,
       <<"b", "a", "s", "h">>,
       <<"z", "s", "h">>,
       <<"f", "i", "s", "h">>,
       <<"s", "h">>,
       <<"s", "s", "h">>,
       <<"t", "m", "u", "x">>,
       <<"s", "c", "r", "e", "e", "n">>,
       <<"h", "t", "o", "p">>,
       <<"t", "o", "p">>,
       <<"l", "s">>,
       <<"c", "a", "t">>,
       <<"g", "r", "e", "p">>,
       <<"f", "i", "n", "d">>,
       <<"p", "w", "d">>,
       <<"c", "d">>,
       <<"e", "c", "h", "o">>,
       <<"p", "r", "i", "n", "t", "f">>,
       <<"t", "e", "s", "t">>,
       <<"[">>>>

\* impl Default for DaemonConfig
DaemonConfigDefault ==
    [min_uid |-> default_min_uid,
     threshold_seconds |-> default_threshold_seconds,
     ignore_patterns |-> default_ignore_patterns,
     debug |-> FALSE]

\* toml::from_str under #[derive(Deserialize)] for DaemonConfig; keys is the
\* file's table, each key an Option.  A key the file omits takes its serde
\* default: the named function for min_uid and threshold_seconds, and
\* Default::default() of the field's type (an empty Vec, false) for the two
\* fields annotated with a bare #[serde(default)]
DaemonConfigFromToml(keys) ==
    [min_uid |-> IF keys.min_uid.some THEN keys.min_uid.val ELSE default_min_uid,
     threshold_seconds |-> IF keys.threshold_seconds.some THEN keys.threshold_seconds.val
                           ELSE default_threshold_seconds,
     ignore_patterns |-> IF keys.ignore_patterns.some THEN keys.ignore_patterns.val
                         ELSE <<>>,
     debug |-> IF keys.debug.some THEN keys.debug.val ELSE FALSE]

\* DaemonConfig::load; file is None when the path does not exist, else
\* [parses, keys]
DaemonConfigLoad(file) ==
    IF file.some
    THEN IF file.val.parses
         THEN [ok |-> TRUE, val |-> DaemonConfigFromToml(file.val.keys)]
         ELSE [ok |-> FALSE]
    ELSE [ok |-> TRUE, val |-> DaemonConfigDefault]

Range(s) == {s[i] : i \in 1..Len(s)}

\* str::starts_with / str::ends_with
StartsWith(s, p) == Len(p) <= Len(s) /\ SubSeq(s, 1, Len(p)) = p
EndsWith(s, p) == Len(p) <= Len(s) /\ SubSeq(s, Len(s) - Len(p) + 1, Len(s)) = p

\* p.split('*'): the pieces of p between the stars
RECURSIVE SplitStar(_)
SplitStar(p) ==
    LET stars == {i \in 1..Len(p) : p[i] = "*"}
    IN  IF stars = {} THEN <<p>>
        ELSE LET i == Min(stars)
             IN  <<SubSeq(p, 1, i - 1)>> \o SplitStar(SubSeq(p, i + 1, Len(p)))

\* the closure of DaemonConfig::should_ignore: does pattern p match comm
glob_match(p, comm) ==
    IF \E i \in 1..Len(p) : p[i] = "*"
    THEN LET parts == SplitStar(p)
         IN  IF Len(parts) = 2
             THEN StartsWith(comm, parts[1]) /\ EndsWith(comm, parts[2])
             ELSE comm = p
    ELSE comm = p

\* DaemonConfig::should_ignore
should_ignore(daemon, comm) ==
    \E i \in 1..Len(daemon.ignore_patterns) : glob_match(daemon.ignore_patterns[i], comm)

\* mutant: the user's ignore list replaces the system's
EffectiveConfigNew_user_replaces(daemon, user) ==
    [threshold_seconds |->
         IF user.some /\ user.val.threshold_seconds.some
         THEN user.val.threshold_seconds.val
         ELSE daemon.threshold_seconds,
     ignore_set |->
         IF user.some THEN Range(user.val.ignore_patterns)
         ELSE Range(daemon.ignore_patterns),
     always_notify |-> IF user.some THEN Range(user.val.always_notify) ELSE {},
     disabled |-> IF user.some THEN user.val.disabled ELSE FALSE]

\* EffectiveConfig::new(daemon, user), user an Option<UserConfig>
EffectiveConfigNew(daemon, user) ==
    [threshold_seconds |->
         IF user.some /\ user.val.threshold_seconds.some
         THEN user.val.threshold_seconds.val
         ELSE daemon.threshold_seconds,
     ignore_set |->
         Range(daemon.ignore_patterns)
             \cup (IF user.some THEN Range(user.val.ignore_patterns) ELSE {}),
     always_notify |-> IF user.some THEN Range(user.val.always_notify) ELSE {},
     disabled |-> IF user.some THEN user.val.disabled ELSE FALSE]

\* mutant: the ignore set is consulted before the always-notify set
should_notify_ignore_first(effective, comm, duration_secs) ==
    IF effective.disabled THEN FALSE
    ELSE IF comm \in effective.ignore_set THEN FALSE
    ELSE duration_secs >= effective.threshold_seconds

\* EffectiveConfig::should_notify; HashSet::contains is equality of strings
should_notify(effective, comm, duration_secs) ==
    IF effective.disabled THEN FALSE
    ELSE IF comm \in effective.always_notify
         THEN duration_secs >= effective.threshold_seconds
    ELSE IF comm \in effective.ignore_set THEN FALSE
    ELSE duration_secs >= effective.threshold_seconds

\* Duration::as_secs
as_secs(duration) == duration \div TicksPerSec

(***************************************************************************)
(* Inputs: records, instants, ages                                         *)
(***************************************************************************)
Tgids == {100, 101}

STALE_SECS == 86400
\* Duration::from_secs(86400)
StaleAge == STALE_SECS * TicksPerSec

ExecEvent(p, ts) ==
    [event_type |-> 1, pid |-> p.pid, tgid |-> p.tgid, ppid |-> 0, uid |-> p.uid,
     timestamp_ns |-> ts, comm |-> Pad(p.comm, COMM_LEN),
     filename |-> Pad(<<>>, FILENAME_LEN)]

ExitEvent(p, code, ts) ==
    [event_type |-> 2, pid |-> p.pid, tgid |-> p.tgid, uid |-> p.uid,
     exit_code |-> code, timestamp_ns |-> ts, comm |-> Pad(p.comm, COMM_LEN)]

(***************************************************************************)
(* Steps of the tracker                                                    *)
(***************************************************************************)
NoRecord == [kind |-> "none"]

\* what is kept of a record for observation: everything but the executable path
\* (which the tracker copies and nothing reads)
Seen(event) == [f \in (DOMAIN event) \ {"filename"} |-> event[f]]

\* time passes: the wall clock moves to a later instant of the grid
AdvanceClock(grid) ==
    /\ \E t \in grid : t > now /\ now' = t
    /\ lastStep' = [op |-> "tick"]
    /\ returned' = None
    /\ pipeline' = <<>>
    /\ UNCHANGED <<trackerVars, processorVars, fnVars, kernelVars, localVars, lastRecord,
                   completions, served, undiscovered>>

\* tracker.on_exec(event)
TrackerExec(event) ==
    /\ processes' = on_exec(processes, event, now)
    /\ lastStep' = [op |-> "on_exec", event |-> Seen(event),
                    prior_kind |-> lastRecord[event.tgid].kind]
    /\ lastRecord' = [lastRecord EXCEPT ![event.tgid] =
                          [kind |-> "exec", event |-> Seen(event), at |-> now,
                           rebound |-> (lastRecord[event.tgid].kind = "exec")]]
    /\ returned' = None
    /\ pipeline' = <<>>
    /\ UNCHANGED <<history, max_history, completions>>

\* tracker.on_exit(event); counted: the completions are recorded, and the run
\* stops matching exits after `bound` of them
TrackerExit(event, counted, bound) ==
    LET r == on_exit(processes, history, max_history, event, now)
    IN  /\ (counted /\ r.result.some) => Len(completions) < bound
        /\ processes' = r.processes
        /\ history' = r.history
        /\ returned' = r.result
        /\ completions' = IF counted /\ r.result.some
                          THEN Append(completions, r.result.val)
                          ELSE completions
        /\ lastStep' = [op |-> "on_exit", event |-> Seen(event),
                        prior |-> lastRecord[event.tgid]]
        /\ lastRecord' = [lastRecord EXCEPT ![event.tgid] = [kind |-> "exit"]]
        /\ UNCHANGED max_history

\* mutant: the sweep records an entry it removes as a completion
TrackerCleanupStale_completes(max_age) ==
    LET kept == cleanup_stale(processes, max_age, now)
        gone == processes \ kept
        e == CHOOSE x \in gone : TRUE
    IN  /\ processes' = kept
        /\ lastRecord' = [g \in Tgids |->
                             IF g \in HashMapKeys(gone) THEN [kind |-> "evicted"]
                             ELSE lastRecord[g]]
        /\ lastStep' = [op |-> "cleanup_stale", max_age |-> max_age,
                        removed |-> HashMapKeys(gone)]
        /\ returned' = None
        /\ pipeline' = <<>>
        /\ history' = IF gone = {} THEN history
                      ELSE Append(history,
                                  [pid |-> e.v.pid, tgid |-> e.v.tgid, uid |-> e.v.uid,
                                   comm |-> e.v.comm, filename |-> e.v.filename,
                                   exit_code |-> 0, duration |-> now - e.v.start_time])
        /\ UNCHANGED <<max_history, completions>>

\* tracker.cleanup_stale(max_age)
TrackerCleanupStale(max_age) ==
    /\ processes' = cleanup_stale(processes, max_age, now)
    /\ lastRecord' = [g \in Tgids |->
                         IF g \in HashMapKeys(processes) \ HashMapKeys(processes')
                         THEN [kind |-> "evicted"]
                         ELSE lastRecord[g]]
    /\ lastStep' = [op |-> "cleanup_stale", max_age |-> max_age,
                    removed |-> HashMapKeys(processes) \ HashMapKeys(processes')]
    /\ returned' = None
    /\ pipeline' = <<>>
    /\ UNCHANGED <<history, max_history, completions>>

\* main's loop as it is entered: at the select!, no interrupt seen, not
\* returned, no delivery command running (sig_pc: where the loop was when the
\* last interrupt arrived; sig_then_took: it has taken a record since while the
\* interrupt was pending)
LoopStart ==
    [pc |-> "select", sigint |-> FALSE, exit_code |-> None, delivery |-> None,
     sig_pc |-> "none", sig_then_took |-> FALSE]

InitNotifyDone ==
    /\ processes = {}
    /\ history = <<>>
    /\ config = DaemonConfigDefault
    /\ user_configs = {}
    /\ sessions = {}
    /\ usernames = {}
    /\ now = 0
    /\ lastStep = [op |-> "new"]
    /\ returned = None
    /\ pipeline = <<>>
    /\ lastRecord = [g \in Tgids |-> NoRecord]
    /\ completions = <<>>
    /\ served = {}
    /\ undiscovered = {}
    /\ ring = <<>>
    /\ draining = FALSE
    /\ mainloop = LoopStart
    /\ produced = 0
    /\ taken = [n |-> 0, note |-> [kind |-> "none"]]
    /\ lastExec = [g \in Tgids |-> [status |-> "none", n |-> 0]]
    /\ lostExit = [g \in Tgids |-> 0]
    /\ applied = [g \in Tgids |-> 0]
    /\ fnOut = None

\* the processes that can run run_server, the clients that can connect to the
\* socket, and the `nd daemon start` invocations
DaemonIds == {1, 2}
ClientIds == {1, 2}
StarterIds == {1, 2}

\* a daemon process that does not exist yet: no registry, no watch channel
NoDaemon == [pc |-> "none", registry |-> None, shutdown |-> FALSE, saved |-> "none"]

\* a client that has not connected: no stream, nothing written or read.
\* read: the request lines the handle_client task has taken from the stream,
\* in order; responses: what it has written to the stream
NoConn ==
    [state |-> "idle", daemon |-> 0, lines |-> <<>>, pc |-> "read", task |-> None,
     response |-> None, read |-> <<>>, responses |-> <<>>, sent |-> 0]

\* no local daemon: nothing listens at socket_path() and there is no history file
InitNoLocal ==
    /\ daemons = [d \in DaemonIds |-> NoDaemon]
    /\ socket = None
    /\ history_file = [kind |-> "absent"]
    /\ conns = [c \in ClientIds |-> NoConn]
    /\ starts = [s \in StarterIds |-> "idle"]

InitCommon ==
    /\ InitNotifyDone
    /\ InitNoLocal

(***************************************************************************)
(* SpecTracker: the public operations of a ProcessTracker, called in any   *)
(* order on a tracker built by ProcessTracker::new(1).                     *)
(***************************************************************************)
\* the instants at which the wall clock is read
TrackerClock == {0, 1, StaleAge + 1}

\* records handed to the tracker: two execs of tgid 100 differ in every field,
\* and the exit records carry a pid, uid and name no exec record has
TrackerExecEvents ==
    {ExecEvent(p, ts) :
        p \in {[tgid |-> 100, pid |-> 100, uid |-> 1000, comm |-> ls],
               [tgid |-> 100, pid |-> 107, uid |-> 1001, comm |-> make],
               [tgid |-> 101, pid |-> 101, uid |-> 1000, comm |-> make]},
        ts \in {0, 1}}

TrackerExitEvents ==
    {ExitEvent([tgid |-> g, pid |-> g + 50, uid |-> 2000, comm |-> sh], code, ts) :
        g \in Tgids, code \in {0, 101}, ts \in {0, 12 * TicksPerSec}}

\* the ages cleanup_stale is called with
MaxAges == {0, StaleAge}

InitTracker ==
    /\ InitCommon
    /\ fnIn = [fn |-> "none"]
    /\ max_history = 1

TickTracker == AdvanceClock(TrackerClock)

CallOnExec ==
    \E event \in TrackerExecEvents :
        TrackerExec(event) /\ UNCHANGED <<processorVars, fnVars, kernelVars, localVars, served, undiscovered, now>>

CallOnExit ==
    \E event \in TrackerExitEvents :
        /\ TrackerExit(event, FALSE, 0)
        /\ pipeline' = <<>>
        /\ UNCHANGED <<processorVars, fnVars, kernelVars, localVars, served, undiscovered, now>>

CallCleanupStale ==
    \E max_age \in MaxAges :
        /\ TrackerCleanupStale(max_age)
        /\ UNCHANGED <<processorVars, fnVars, kernelVars, localVars, served, undiscovered, now>>

NextTracker ==
    \/ TickTracker
    \/ CallOnExec
    \/ CallOnExit
    \/ CallCleanupStale

SpecTracker == InitTracker /\ [][NextTracker]_vars

(***************************************************************************)
(* Claims about the tracker (SpecTracker)                                  *)
(***************************************************************************)
EntriesOf(g) == {e \in processes : e.k = g}

MatchedExit == lastStep.op = "on_exit" /\ lastStep.prior.kind = "exec"

\* C1 (pairing): an exit record handled while the most recent record of its tgid
\* is an exec that no stale sweep has evicted makes on_exit return a
\* CompletedProcess whose uid, tgid, pid and command name are the exec record's,
\* whose exit code is the exit record's, and whose duration is >= 0.
C1_Pairing ==
    MatchedExit =>
        /\ returned.some
        /\ returned.val.uid = lastStep.prior.event.uid
        /\ returned.val.tgid = lastStep.prior.event.tgid
        /\ returned.val.pid = lastStep.prior.event.pid
        /\ returned.val.comm = FieldStr(lastStep.prior.event.comm, COMM_LEN)
        /\ returned.val.exit_code = lastStep.event.exit_code
        /\ returned.val.duration >= 0

\* a matched exit whose record disagrees with the exec record on pid, uid and name
C1_Witness ==
    /\ MatchedExit
    /\ returned.some
    /\ lastStep.event.pid # lastStep.prior.event.pid
    /\ lastStep.event.uid # lastStep.prior.event.uid
    /\ lastStep.event.comm # lastStep.prior.event.comm
    /\ returned.val.comm = make
    /\ returned.val.exit_code = 101

\* the state part of the rebind claim: the table after the second exec, and the
\* CompletedProcess of the exit that follows it
RebindState ==
    /\ (lastStep.op = "on_exec" /\ lastStep.prior_kind = "exec") =>
           /\ Cardinality(EntriesOf(lastStep.event.tgid)) = 1
           /\ \A e \in EntriesOf(lastStep.event.tgid) :
                  /\ e.v.comm = FieldStr(lastStep.event.comm, COMM_LEN)
                  /\ e.v.uid = lastStep.event.uid
                  /\ e.v.pid = lastStep.event.pid
                  /\ e.v.start_timestamp_ns = lastStep.event.timestamp_ns
                  /\ e.v.start_time = now
           /\ ~returned.some
    /\ (MatchedExit /\ lastStep.prior.rebound) =>
           /\ returned.some
           /\ returned.val.comm = FieldStr(lastStep.prior.event.comm, COMM_LEN)
           /\ returned.val.uid = lastStep.prior.event.uid
           /\ returned.val.duration =
                  IF lastStep.event.timestamp_ns > lastStep.prior.event.timestamp_ns
                  THEN lastStep.event.timestamp_ns - lastStep.prior.event.timestamp_ns
                  ELSE now - lastStep.prior.at

\* C3 (rebind): an exec record handled while its tgid already has an entry leaves
\* exactly one entry for the tgid, the one built from the second record (name,
\* uid, kernel timestamp, wall-clock start); the step returns no CompletedProcess
\* and leaves the history alone; and the exit that follows reports the name and
\* computes the duration from the second exec only.
C3_Rebind ==
    /\ []RebindState
    /\ [][lastStep'.op = "on_exec" => history' = history]_vars

\* an exit matched with the second of two execs that differ in name and uid,
\* handled at different instants
C3_Witness ==
    /\ MatchedExit
    /\ lastStep.prior.rebound
    /\ lastStep.prior.at > 0
    /\ returned.some
    /\ returned.val.comm = ls
    /\ returned.val.duration = now - lastStep.prior.at
    /\ returned.val.duration > 0

\* C4 (duration source): on a matched exit the duration is exit.timestamp_ns -
\* exec.timestamp_ns when the exit timestamp is the larger, and otherwise the
\* wall-clock time elapsed since the exec record was handled; it is never
\* negative (the subtraction does not underflow).
C4_DurationSource ==
    MatchedExit =>
        /\ returned.some
        /\ lastStep.event.timestamp_ns > lastStep.prior.event.timestamp_ns =>
               returned.val.duration =
                   lastStep.event.timestamp_ns - lastStep.prior.event.timestamp_ns
        /\ lastStep.event.timestamp_ns <= lastStep.prior.event.timestamp_ns =>
               returned.val.duration = now - lastStep.prior.at
        /\ returned.val.duration >= 0

\* an exit whose timestamp is smaller than the exec's, a day after the exec
C4_Witness ==
    /\ MatchedExit
    /\ returned.some
    /\ lastStep.event.timestamp_ns < lastStep.prior.event.timestamp_ns
    /\ returned.val.duration = StaleAge

\* C6 (stale sweep): right after cleanup_stale(d) no entry is older than d, every
\* entry that was not older than d is still there unmodified, nothing was added,
\* and the history is untouched.
C6_StaleSweep ==
    [][lastStep'.op = "cleanup_stale" =>
          /\ \A e \in processes' : now' - e.v.start_time <= lastStep'.max_age
          /\ \A e \in processes : now - e.v.start_time <= lastStep'.max_age
                                      => e \in processes'
          /\ processes' \subseteq processes
          /\ history' = history
          /\ now' = now]_vars

\* a sweep that evicted an entry and kept one whose age is exactly d
C6_Witness ==
    /\ lastStep.op = "cleanup_stale"
    /\ lastStep.max_age = StaleAge
    /\ lastStep.removed # {}
    /\ \E e \in processes : now - e.v.start_time = StaleAge
    /\ history # <<>>

\* C9 (active table): a tgid has an entry exactly when the most recent record
\* handled for it is an exec whose entry no stale sweep has evicted since; no
\* tgid ever has two entries.
C9_ActiveTable ==
    \A g \in Tgids :
        /\ (EntriesOf(g) # {}) <=> (lastRecord[g].kind = "exec")
        /\ Cardinality(EntriesOf(g)) <= 1
        /\ \A e \in EntriesOf(g) : e.v.tgid = g

\* one tgid evicted by a sweep, the other completed and then started again
C9_Witness ==
    /\ lastRecord[100].kind = "evicted"
    /\ lastRecord[101].kind = "exec"
    /\ EntriesOf(100) = {}
    /\ EntriesOf(101) # {}
    /\ history # <<>>
    /\ history[1].tgid = 101

(***************************************************************************)
(* SpecHistory: the same operations on a tracker built by                  *)
(* ProcessTracker::new(max_history) for every max_history up to MaxCap,    *)
(* run until MaxCompletions exits have been matched.                       *)
(***************************************************************************)
HistoryClock == {0, 1}

HistoryExecEvents ==
    {ExecEvent(p, 0) :
        p \in {[tgid |-> 100, pid |-> 100, uid |-> 1000, comm |-> ls],
               [tgid |-> 101, pid |-> 101, uid |-> 1000, comm |-> make]}}

HistoryExitEvents ==
    {ExitEvent([tgid |-> g, pid |-> g, uid |-> 1000, comm |-> sh], 0, ts) :
        g \in Tgids, ts \in {1, 12 * TicksPerSec}}

InitHistory ==
    /\ InitCommon
    /\ fnIn = [fn |-> "none"]
    /\ max_history \in 0..MaxCap

TickHistory == AdvanceClock(HistoryClock)

HistoryOnExec ==
    \E event \in HistoryExecEvents :
        TrackerExec(event) /\ UNCHANGED <<processorVars, fnVars, kernelVars, localVars, served, undiscovered, now>>

HistoryOnExit ==
    \E event \in HistoryExitEvents :
        /\ TrackerExit(event, TRUE, MaxCompletions)
        /\ pipeline' = <<>>
        /\ UNCHANGED <<processorVars, fnVars, kernelVars, localVars, served, undiscovered, now>>

HistoryCleanupStale ==
    /\ TrackerCleanupStale(0)
    /\ UNCHANGED <<processorVars, fnVars, kernelVars, localVars, served, undiscovered, now>>

NextHistory ==
    \/ TickHistory
    \/ HistoryOnExec
    \/ HistoryOnExit
    \/ HistoryCleanupStale

SpecHistory == InitHistory /\ [][NextHistory]_vars

\* the last k elements of a sequence, in order
LastK(s, k) == IF Len(s) <= k THEN s ELSE SubSeq(s, Len(s) - k + 1, Len(s))

\* C5 (history bound): after N matched completions on a tracker with cap K the
\* history has min(N, K) entries, which are the K most recent completions in
\* completion order; its length never exceeds K.
C5_HistoryBound ==
    /\ Len(history) = IF Len(completions) < max_history THEN Len(completions)
                      ELSE max_history
    /\ Len(history) <= max_history
    /\ history = LastK(completions, max_history)

\* more completions than the cap, the history full with two different entries
C5_Witness ==
    /\ max_history = 2
    /\ Len(completions) = 3
    /\ Len(history) = 2
    /\ history[1] # history[2]
    /\ history[1] # completions[1]
    /\ history[2] = completions[3]

(***************************************************************************)
(* EventProcessor: per-user config cache, session discovery, notifier      *)
(***************************************************************************)
\* what the environment answers when the pipeline asks it something:
\*   load    UserConfig::load_for_uid: [ok, val], val an Option<UserConfig>
\*   passwd  the /etc/passwd lookup of get_username: an Option<String>
\*   stype   detect_session_type (loginctl)
\*   sent    whether systemd-run notify-send succeeded
Env(load, passwd, stype, sent) ==
    [load |-> load, passwd |-> passwd, stype |-> stype, sent |-> sent]

\* mutant: the policy file is read on every completion
get_user_config_reload(cache, uid, load) ==
    LET cache2 == HashMapInsert(HashMapRemove(cache, uid), uid,
                                IF load.ok THEN load.val ELSE None)
    IN  [user_configs |-> cache2,
         loaded |-> TRUE,
         result |-> HashMapGet(cache2, uid).val]

\* EventProcessor::get_user_config
get_user_config(cache, uid, load) ==
    LET vacant == ~HashMapContainsKey(cache, uid)
        cache2 == IF vacant
                  THEN HashMapInsert(cache, uid, IF load.ok THEN load.val ELSE None)
                  ELSE cache
    IN  [user_configs |-> cache2,
         loaded |-> vacant,
         result |-> HashMapGet(cache2, uid).val]

\* SessionDiscovery::get_username
get_username(names, uid, passwd) ==
    IF HashMapContainsKey(names, uid)
    THEN [usernames |-> names, result |-> HashMapGet(names, uid)]
    ELSE IF passwd.some
         THEN [usernames |-> HashMapInsert(names, uid, passwd.val), result |-> passwd]
         ELSE [usernames |-> names, result |-> None]

\* SessionDiscovery::get_display_for_user: ":0" on every path
get_display_for_user(uid) == Some(":0")

\* SessionDiscovery::discover_session
discover_session(names, uid, passwd, stype) ==
    LET name == get_username(names, uid, passwd)
    IN  IF ~name.result.some
        THEN [usernames |-> name.usernames, result |-> None]
        ELSE [usernames |-> name.usernames,
              result |-> Some(
                  [uid |-> uid,
                   username |-> name.result.val,
                   display |-> IF stype = "X11" THEN get_display_for_user(uid) ELSE None,
                   dbus_address |-> <<"unix:path=/run/user/", uid, "/bus">>,
                   session_type |-> stype])]

\* SessionDiscovery::get_session
get_session(sess, names, uid, passwd, stype) ==
    IF HashMapContainsKey(sess, uid)
    THEN [sessions |-> sess, usernames |-> names, discovered |-> FALSE,
          result |-> HashMapGet(sess, uid)]
    ELSE LET found == discover_session(names, uid, passwd, stype)
         IN  IF found.result.some
             THEN [sessions |-> HashMapInsert(sess, uid, found.result.val),
                   usernames |-> found.usernames, discovered |-> TRUE,
                   result |-> found.result]
             ELSE [sessions |-> sess, usernames |-> found.usernames,
                   discovered |-> TRUE, result |-> None]

(***************************************************************************)
(* Notifier                                                                *)
(***************************************************************************)
DigitChars == <<"0", "1", "2", "3", "4", "5", "6", "7", "8", "9">>

\* format!("{}", n) for an unsigned n
RECURSIVE FormatU(_)
FormatU(n) ==
    IF n < 10 THEN <<DigitChars[n + 1]>>
    ELSE FormatU(n \div 10) \o <<DigitChars[(n % 10) + 1]>>

\* format!("{}", n) for an i32
FormatI(n) == IF n < 0 THEN <<"-">> \o FormatU(0 - n) ELSE FormatU(n)

StrCommandCompleted == <<"C", "o", "m", "m", "a", "n", "d", " ", "c", "o", "m", "p", "l", "e", "t", "e", "d", ":", " ">>
StrSucceeded == <<"s", "u", "c", "c", "e", "e", "d", "e", "d">>
StrFailed == <<"f", "a", "i", "l", "e", "d">>
StrDuration == <<"\n", "D", "u", "r", "a", "t", "i", "o", "n", ":", " ">>
StrExitCode == <<"\n", "E", "x", "i", "t", " ", "c", "o", "d", "e", ":", " ">>

\* mutant: a duration of exactly one minute (one hour) is still printed in
\* seconds (minutes)
format_duration_inclusive(d) ==
    LET secs == as_secs(d)
    IN  IF secs <= 60 THEN FormatU(secs) \o <<"s">>
        ELSE IF secs <= 3600
             THEN FormatU(secs \div 60) \o <<"m", " ">> \o FormatU(secs % 60) \o <<"s">>
        ELSE FormatU(secs \div 3600) \o <<"h", " ">>
                 \o FormatU((secs % 3600) \div 60) \o <<"m", " ">>
                 \o FormatU(secs % 60) \o <<"s">>

\* format_duration
format_duration(d) ==
    LET secs == as_secs(d)
    IN  IF secs < 60 THEN FormatU(secs) \o <<"s">>
        ELSE IF secs < 3600
             THEN FormatU(secs \div 60) \o <<"m", " ">> \o FormatU(secs % 60) \o <<"s">>
        ELSE FormatU(secs \div 3600) \o <<"h", " ">>
                 \o FormatU((secs % 3600) \div 60) \o <<"m", " ">>
                 \o FormatU(secs % 60) \o <<"s">>

\* Notifier::format_body
format_body(process) ==
    LET duration == format_duration(process.duration)
        status == IF process.exit_code = 0 THEN StrSucceeded ELSE StrFailed
    IN  status \o StrDuration \o duration \o StrExitCode \o FormatI(process.exit_code)

\* Notifier::notify: the summary and the body handed to send_notify_send, whose
\* outcome is sent
notify(session, process, sent) ==
    [summary |-> StrCommandCompleted \o process.comm,
     body |-> format_body(process),
     ok |-> sent]

\* mutant: the notifier is invoked whatever the decision
decide_always(effective, comm, duration_secs) == TRUE

\* the decision maybe_notify takes
decide(effective, comm, duration_secs) == should_notify(effective, comm, duration_secs)

\* EventProcessor::maybe_notify: the caches after the call and what was done, in
\* order: the config lookup, the decision, the session lookup, the notifier call
maybe_notify(cfg, cache, sess, names, process, env) ==
    LET uc == get_user_config(cache, process.uid, env.load)
        effective == EffectiveConfigNew(cfg, uc.result)
        duration_secs == as_secs(process.duration)
        wanted == decide(effective, process.comm, duration_secs)
        s1 == [step |-> "get_user_config", uid |-> process.uid, loaded |-> uc.loaded,
               answer |-> IF uc.loaded THEN Some(env.load) ELSE None]
        s2 == [step |-> "should_notify", uid |-> process.uid,
               threshold_seconds |-> effective.threshold_seconds,
               comm |-> process.comm, duration_secs |-> duration_secs,
               result |-> wanted]
    IN  IF ~wanted
        THEN [user_configs |-> uc.user_configs, sessions |-> sess,
              usernames |-> names, did |-> <<s1, s2>>]
        ELSE LET gs == get_session(sess, names, process.uid, env.passwd, env.stype)
                 s3 == [step |-> "get_session", uid |-> process.uid,
                        discovered |-> gs.discovered, found |-> gs.result.some]
             IN  IF ~gs.result.some
                 THEN [user_configs |-> uc.user_configs, sessions |-> gs.sessions,
                       usernames |-> gs.usernames, did |-> <<s1, s2, s3>>]
                 ELSE [user_configs |-> uc.user_configs, sessions |-> gs.sessions,
                       usernames |-> gs.usernames,
                       did |-> <<s1, s2, s3,
                                 LET n == notify(gs.result.val, process, env.sent)
                                 IN  [step |-> "notify", session |-> gs.result.val,
                                      process |-> process, summary |-> n.summary,
                                      body |-> n.body, ok |-> n.ok]>>]

\* maybe_notify went to the session lookup and came back without a session
FailedDiscovery(did) ==
    \E i \in 1..Len(did) : did[i].step = "get_session" /\ ~did[i].found

\* mutant: userspace drops the exec records of uids below the configured min_uid
HandleExec_min_uid(event) ==
    /\ IF event.uid < config.min_uid
       THEN /\ lastStep' = [op |-> "on_exec", event |-> Seen(event),
                            prior_kind |-> lastRecord[event.tgid].kind]
            /\ returned' = None
            /\ pipeline' = <<>>
            /\ UNCHANGED <<processes, history, max_history, completions, lastRecord>>
       ELSE TrackerExec(event)
    /\ UNCHANGED <<processorVars, fnVars, served, undiscovered, now>>

\* EventProcessor::handle_exec
HandleExec(event) ==
    /\ TrackerExec(event)
    /\ UNCHANGED <<processorVars, fnVars, served, undiscovered, now>>

\* mutant: the completion is put in the history only when it was notified
HandleExit_history_if_notified(event, env) ==
    LET r == on_exit(processes, history, max_history, event, now)
        m == maybe_notify(config, user_configs, sessions, usernames, r.result.val, env)
    IN  /\ r.result.some => Len(completions) < MaxDaemonCompletions
        /\ processes' = r.processes
        /\ returned' = r.result
        /\ completions' = IF r.result.some THEN Append(completions, r.result.val)
                          ELSE completions
        /\ lastStep' = [op |-> "on_exit", event |-> Seen(event),
                        prior |-> lastRecord[event.tgid]]
        /\ lastRecord' = [lastRecord EXCEPT ![event.tgid] = [kind |-> "exit"]]
        /\ IF r.result.some
           THEN /\ user_configs' = m.user_configs
                /\ sessions' = m.sessions
                /\ usernames' = m.usernames
                /\ pipeline' = m.did
                /\ served' = served \cup {r.result.val.uid}
                /\ undiscovered' = IF FailedDiscovery(m.did)
                                   THEN undiscovered \cup {r.result.val.uid}
                                   ELSE undiscovered
                /\ history' = IF Len(m.did) = 4 /\ m.did[4].ok THEN r.history ELSE history
           ELSE /\ pipeline' = <<>>
                /\ UNCHANGED <<user_configs, sessions, usernames, served, undiscovered, history>>
        /\ UNCHANGED <<config, max_history, fnVars, now>>

\* EventProcessor::handle_exit, the environment answering env
HandleExit(event, env) ==
    /\ TrackerExit(event, TRUE, MaxDaemonCompletions)
    /\ IF returned'.some
       THEN LET m == maybe_notify(config, user_configs, sessions, usernames,
                                  returned'.val, env)
            IN  /\ user_configs' = m.user_configs
                /\ sessions' = m.sessions
                /\ usernames' = m.usernames
                /\ pipeline' = m.did
                /\ served' = served \cup {returned'.val.uid}
                /\ undiscovered' = IF FailedDiscovery(m.did)
                                   THEN undiscovered \cup {returned'.val.uid}
                                   ELSE undiscovered
       ELSE /\ pipeline' = <<>>
            /\ UNCHANGED <<user_configs, sessions, usernames, served, undiscovered>>
    /\ UNCHANGED <<config, fnVars, now>>

\* mutant: the per-user-config cache survives the cleanup
Cleanup_keeps_configs ==
    /\ TrackerCleanupStale(StaleAge)
    /\ sessions' = {}
    /\ served' = {}
    /\ undiscovered' = {}
    /\ UNCHANGED <<config, user_configs, usernames, fnVars, now>>

\* EventProcessor::cleanup
Cleanup ==
    /\ TrackerCleanupStale(StaleAge)
    /\ sessions' = {}
    /\ user_configs' = {}
    /\ served' = {}
    /\ undiscovered' = {}
    /\ UNCHANGED <<config, usernames, fnVars, now>>

(***************************************************************************)
(* Spec: the daemon's event processor, fed records and cleanup ticks       *)
(***************************************************************************)
DaemonClock == {0, StaleAge + 1}

\* per-user policies the loader may find
UserDisabled ==
    [threshold_seconds |-> None, ignore_patterns |-> <<>>, always_notify |-> <<>>,
     disabled |-> TRUE]
UserAlwaysLs ==
    [threshold_seconds |-> Some(1), ignore_patterns |-> <<>>, always_notify |-> <<ls>>,
     disabled |-> FALSE]

LoadOk(v) == [ok |-> TRUE, val |-> v]
LoadErr == [ok |-> FALSE]

\* uid 1000 has no policy file or one that does not parse; uid 1001 has none, or
\* one that disables notifications
LoadOutcomes(uid) ==
    IF uid = 1000 THEN {LoadOk(None), LoadErr}
    ELSE {LoadOk(None), LoadOk(Some(UserDisabled))}

UserNameOf(uid) == IF uid = 1000 THEN "alice" ELSE IF uid = 0 THEN "root" ELSE "bob"
PasswdOutcomes(uid) == {Some(UserNameOf(uid)), None}
SessionTypeOf(uid) == IF uid = 1000 THEN "X11" ELSE "Wayland"

\* what the environment answers during a drain
DeliveryEnv(uid, sent) ==
    Env(LoadOk(None), Some(UserNameOf(uid)), SessionTypeOf(uid), sent)

\* the same, the delivery command succeeding
PipelineEnv(uid) == DeliveryEnv(uid, TRUE)

DaemonExecEvents ==
    {ExecEvent(p, 0) :
        p \in {[tgid |-> 100, pid |-> 100, uid |-> 1000, comm |-> make],
               [tgid |-> 101, pid |-> 101, uid |-> 1001, comm |-> ls]}}

DaemonExitEvents ==
    {ExitEvent([tgid |-> g, pid |-> g, uid |-> 2000, comm |-> sh],
               IF g = 100 THEN 0 ELSE 101, ts) :
        g \in Tgids, ts \in {TicksPerSec \div 2, 12 * TicksPerSec}}

Init ==
    /\ InitCommon
    /\ fnIn = [fn |-> "none"]
    /\ max_history = 1000

Tick == AdvanceClock(DaemonClock)

RecvExec ==
    \E event \in DaemonExecEvents : HandleExec(event) /\ UNCHANGED <<kernelVars, localVars>>

RecvExit ==
    \E event \in DaemonExitEvents :
        LET owner == HashMapGet(processes, event.tgid)
            uid == IF owner.some THEN owner.val.uid ELSE event.uid
        IN  \E load \in LoadOutcomes(uid), passwd \in PasswdOutcomes(uid),
               sent \in BOOLEAN :
                /\ HandleExit(event, Env(load, passwd, SessionTypeOf(uid), sent))
                /\ UNCHANGED <<kernelVars, localVars>>

CleanupTick == Cleanup /\ UNCHANGED <<kernelVars, localVars>>

Next ==
    \/ Tick
    \/ RecvExec
    \/ RecvExit
    \/ CleanupTick

Spec == Init /\ [][Next]_vars

(***************************************************************************)
(* Claims about the event processor (Spec)                                 *)
(***************************************************************************)
\* C2 (orphan): an exit record whose tgid has no entry in the active table makes
\* on_exit return nothing, leaves the active table and the history as they were,
\* and the event processor looks up no config, discovers no session and sends no
\* notification.
C2_Orphan ==
    [][(lastStep'.op = "on_exit"
            /\ ~HashMapContainsKey(processes, lastStep'.event.tgid)) =>
          /\ returned' = None
          /\ processes' = processes
          /\ history' = history
          /\ pipeline' = <<>>
          /\ user_configs' = user_configs
          /\ sessions' = sessions
          /\ usernames' = usernames]_vars

\* an exit for a tgid whose entry a stale sweep removed, while another process
\* is active and an earlier completion is in the history
C2_Witness ==
    /\ lastStep.op = "on_exit"
    /\ lastStep.prior.kind = "evicted"
    /\ returned = None
    /\ processes # {}
    /\ history # <<>>
    /\ pipeline = <<>>

\* C10 (pipeline): for a completed pair the event processor takes the decision
\* under the effective config of the process's uid, then (only if the decision is
\* to notify) resolves the uid's session, then (only if a session is resolved)
\* invokes the notifier, once, for that completion.  A 12 s "make" under
\* threshold 10 is decided to notify; a 0.5 s "ls" is not.
C10_Pipeline ==
    MatchedExit =>
        LET p == returned.val
            secs == as_secs(p.duration)
            effective == EffectiveConfigNew(config, HashMapGet(user_configs, p.uid).val)
            wanted == should_notify(effective, p.comm, secs)
            notifies == {i \in 1..Len(pipeline) : pipeline[i].step = "notify"}
            lookups == {i \in 1..Len(pipeline) : pipeline[i].step = "get_session"}
        IN  /\ returned.some
            /\ HashMapContainsKey(user_configs, p.uid)
            /\ Len(pipeline) >= 2
            /\ pipeline[1].step = "get_user_config"
            /\ pipeline[2].step = "should_notify"
            /\ pipeline[2].result = wanted
            /\ ~wanted => (Len(pipeline) = 2 /\ notifies = {} /\ lookups = {})
            /\ wanted =>
                   /\ Len(pipeline) >= 3
                   /\ pipeline[3].step = "get_session"
                   /\ pipeline[3].uid = p.uid
                   /\ pipeline[3].found <=> HashMapContainsKey(sessions, p.uid)
                   /\ pipeline[3].found =>
                          /\ Len(pipeline) = 4
                          /\ notifies = {4}
                          /\ pipeline[4].process = p
                          /\ pipeline[4].session = HashMapGet(sessions, p.uid).val
                   /\ ~pipeline[3].found => Len(pipeline) = 3
            /\ (p.comm = make /\ secs = 12 /\ effective.threshold_seconds = 10
                    /\ ~effective.disabled) => wanted
            /\ (p.comm = ls /\ secs = 0) => ~wanted

\* the 12 s make of a user without policy, notified in their X11 session
C10_Witness ==
    /\ MatchedExit
    /\ returned.some
    /\ returned.val.comm = make
    /\ as_secs(returned.val.duration) = 12
    /\ HashMapGet(user_configs, returned.val.uid) = Some(None)
    /\ Len(pipeline) = 4
    /\ pipeline[2].threshold_seconds = 10
    /\ pipeline[2].result
    /\ pipeline[4].step = "notify"
    /\ pipeline[4].session.username = "alice"

\* C11 (history independent of the decision): every exit record that finds an
\* entry for its tgid appends the CompletedProcess it returns to the history,
\* whatever the pipeline does next: user disabled, name ignored, duration below
\* the threshold, no session found, delivery failed, or notification sent.
C11_HistoryIndependent ==
    [][(lastStep'.op = "on_exit"
            /\ HashMapContainsKey(processes, lastStep'.event.tgid)) =>
          /\ returned'.some
          /\ Len(pipeline') >= 2
          /\ Len(history) < max_history
          /\ history' = Append(history, returned'.val)]_vars

\* two completions in the history, neither notified: the ls of a user who
\* disabled notifications, then a 12 s make whose delivery failed
C11_Witness ==
    /\ MatchedExit
    /\ Len(history) = 2
    /\ history[1].comm = ls
    /\ HashMapGet(user_configs, history[1].uid) = Some(Some(UserDisabled))
    /\ history[2] = returned.val
    /\ Len(pipeline) = 4
    /\ ~pipeline[4].ok

\* C19 (cleanup tick): right after cleanup() no entry of the active table is
\* older than 24 h, the session cache and the per-user-config cache are empty and
\* the history is as it was; the first completion processed for a uid after a
\* cleanup loads the uid's config from disk, and a session lookup made for it runs
\* the discovery instead of answering from the cache.
C19_CleanupTick ==
    [][/\ lastStep'.op = "cleanup_stale" =>
              /\ \A e \in processes' : now' - e.v.start_time <= STALE_SECS * TicksPerSec
              /\ sessions' = {}
              /\ user_configs' = {}
              /\ history' = history
       /\ (lastStep'.op = "on_exit" /\ returned'.some
               /\ returned'.val.uid \notin served) =>
              /\ pipeline'[1].step = "get_user_config"
              /\ pipeline'[1].loaded
              /\ \A i \in 1..Len(pipeline') :
                     pipeline'[i].step = "get_session" => pipeline'[i].discovered]_vars

\* two completions of the same user, the second one after a cleanup: its config
\* is loaded again and its session discovered again
C19_Witness ==
    /\ MatchedExit
    /\ Len(completions) = 2
    /\ completions[1].uid = completions[2].uid
    /\ served = {completions[2].uid}
    /\ Len(pipeline) = 4
    /\ pipeline[1].loaded
    /\ pipeline[3].discovered
    /\ history = completions

\* C20 (all caches dropped by the cleanup tick): right after cleanup() the session
\* cache, the per-user-config cache and the uid-to-username cache are all empty,
\* so that nothing cached before the tick serves an event after it.
C20_AllCachesDropped ==
    lastStep.op = "cleanup_stale" =>
        /\ sessions = {}
        /\ user_configs = {}
        /\ usernames = {}

\* the steps of the last handle_exit that are the session lookup
SessionLookups(did) == {i \in 1..Len(did) : did[i].step = "get_session"}

\* C21 (discovery failure): a completion whose session lookup finds no session
\* sends no notification, and a completion of a uid whose discovery failed since
\* the last cleanup does not run discovery.
C21_NoRetry ==
    [][(lastStep'.op = "on_exit" /\ returned'.some) =>
          \A i \in SessionLookups(pipeline') :
              /\ ~pipeline'[i].found =>
                     \A j \in 1..Len(pipeline') : pipeline'[j].step # "notify"
              /\ returned'.val.uid \in undiscovered => ~pipeline'[i].discovered]_vars

\* the policy of a user without an override: the system's threshold and ignore
\* list, nothing always notified, not disabled
NoOverride(daemon) ==
    [threshold_seconds |-> daemon.threshold_seconds,
     ignore_set |-> Range(daemon.ignore_patterns),
     always_notify |-> {},
     disabled |-> FALSE]

\* C22 (per-user policy cache): a completion reads the uid's policy file iff it is
\* the uid's first completion since the last cleanup, and then caches what the
\* load gave, None for a load error; otherwise the cache is left as it is; only
\* a load and the cleanup change the cache; while None is cached for the uid the
\* decision is the one of a user without an override.
C22_UserConfigCache ==
    [][/\ (lastStep'.op = "on_exit" /\ returned'.some) =>
              LET uid == returned'.val.uid
                  s1 == pipeline'[1]
                  s2 == pipeline'[2]
              IN  /\ {i \in 1..Len(pipeline') : pipeline'[i].step = "get_user_config"} = {1}
                  /\ s1.loaded <=> uid \notin served
                  /\ ~s1.loaded => user_configs' = user_configs
                  /\ s1.loaded =>
                         /\ ~HashMapContainsKey(user_configs, uid)
                         /\ user_configs' = user_configs \cup
                                {[k |-> uid,
                                  v |-> IF s1.answer.val.ok THEN s1.answer.val.val
                                        ELSE None]}
                  /\ HashMapGet(user_configs', uid) = Some(None) =>
                         /\ s2.threshold_seconds = config.threshold_seconds
                         /\ s2.result = should_notify(NoOverride(config), s2.comm,
                                                      s2.duration_secs)
       /\ (~(lastStep'.op = "on_exit" /\ returned'.some)
               /\ lastStep'.op # "cleanup_stale") =>
              user_configs' = user_configs]_vars

\* the second completion of uid 1000 since the last cleanup, notified under the
\* system threshold: the policy file is not read again
C22_Witness ==
    /\ lastStep.op = "on_exit"
    /\ Len(completions) = 2
    /\ completions[1].uid = 1000
    /\ completions[2].uid = 1000
    /\ Len(pipeline) >= 2
    /\ ~pipeline[1].loaded
    /\ user_configs = {[k |-> 1000, v |-> None]}
    /\ pipeline[2].result

(***************************************************************************)
(* SpecUid: the event processor fed records of uids below min_uid          *)
(***************************************************************************)
UidExecEvents ==
    {ExecEvent(p, 0) :
        p \in {[tgid |-> 100, pid |-> 100, uid |-> 0, comm |-> cargo],
               [tgid |-> 101, pid |-> 101, uid |-> 999, comm |-> make],
               [tgid |-> 101, pid |-> 101, uid |-> 1000, comm |-> make]}}

UidTick == AdvanceClock(DaemonClock)

UidRecvExec ==
    \E event \in UidExecEvents : HandleExec(event) /\ UNCHANGED <<kernelVars, localVars>>

UidRecvExit ==
    \E event \in DaemonExitEvents :
        LET owner == HashMapGet(processes, event.tgid)
            uid == IF owner.some THEN owner.val.uid ELSE event.uid
        IN  \E sent \in BOOLEAN :
                /\ HandleExit(event, DeliveryEnv(uid, sent))
                /\ UNCHANGED <<kernelVars, localVars>>

NextUid ==
    \/ UidTick
    \/ UidRecvExec
    \/ UidRecvExit

SpecUid == Init /\ [][NextUid]_vars

UserNpmTest ==
    [threshold_seconds |-> None, ignore_patterns |-> <<npm_star>>,
     always_notify |-> <<star_test>>, disabled |-> FALSE]
UserDisabledAlways ==
    [threshold_seconds |-> Some(1), ignore_patterns |-> <<>>,
     always_notify |-> <<ls, make>>, disabled |-> TRUE]

DecideDaemons ==
    {DaemonConfigDefault,
     [min_uid |-> 1000, threshold_seconds |-> 1, ignore_patterns |-> <<npm_star, make>>,
      debug |-> FALSE]}
DecideUsers ==
    {None, Some(UserDisabled), Some(UserAlwaysLs), Some(UserNpmTest),
     Some(UserDisabledAlways)}
DecideComms == {ls, make, npm, npm_run, yarn, unittest, npm_star}
DecideSecs == {0, 1, 9, 10, 12}

InitDecide ==
    /\ InitCommon
    /\ max_history = 1000
    /\ \E d \in DecideDaemons, u \in DecideUsers, c \in DecideComms, s \in DecideSecs :
           fnIn = [fn |-> "should_notify", daemon |-> d, user |-> u, comm |-> c,
                   duration_secs |-> s]

\* EffectiveConfig::new(&daemon, user).should_notify(comm, duration_secs)
Decide ==
    /\ fnIn.fn = "should_notify"
    /\ ~fnOut.some
    /\ fnOut' = Some(should_notify(EffectiveConfigNew(fnIn.daemon, fnIn.user),
                                   fnIn.comm, fnIn.duration_secs))
    /\ UNCHANGED <<trackerVars, processorVars, ghostVars, kernelVars, localVars, now, fnIn>>

NextDecide == Decide

SpecDecide == InitDecide /\ [][NextDecide]_vars

\* is the name one of the entries of the list
Listed(list, name) == \E i \in 1..Len(list) : list[i] = name

\* does one of the patterns of the list match the name
Matched(list, name) == \E i \in 1..Len(list) : glob_match(list[i], name)

\* the decision of section 4.5, with In(list, name) the membership test
Decision(In(_, _)) ==
    LET u == fnIn.user
        threshold == IF u.some /\ u.val.threshold_seconds.some
                     THEN u.val.threshold_seconds.val
                     ELSE fnIn.daemon.threshold_seconds
        always == u.some /\ In(u.val.always_notify, fnIn.comm)
        ignored == \/ In(fnIn.daemon.ignore_patterns, fnIn.comm)
                   \/ u.some /\ In(u.val.ignore_patterns, fnIn.comm)
    IN  IF u.some /\ u.val.disabled THEN FALSE
        ELSE IF always THEN fnIn.duration_secs >= threshold
        ELSE IF ignored THEN FALSE
        ELSE fnIn.duration_secs >= threshold

\* C7 (decision function): should_notify is false when the user is disabled;
\* otherwise (duration >= threshold) when the name is in the always-notify set,
\* also when it is in the ignore set too; otherwise false when the name is in
\* the ignore set; otherwise (duration >= threshold).
C7_DecisionFunction ==
    fnOut.some => fnOut.val = Decision(Listed)

\* "ls" is in the default ignore list and in the user's always-notify list, and
\* ran for the user's threshold: notified
C7_Witness ==
    /\ fnOut = Some(TRUE)
    /\ fnIn.comm = ls
    /\ Listed(fnIn.daemon.ignore_patterns, ls)
    /\ fnIn.user = Some(UserAlwaysLs)
    /\ fnIn.duration_secs = 1

\* C8 (pattern semantics in the decision path): the ignore and always-notify
\* lists are matched as patterns, a pattern with one '*' matching by prefix and
\* suffix: under ignore pattern "npm*" neither "npm" nor "npm-run" is notified at
\* any duration, and under always-notify pattern "*test" "unittest" is treated as
\* always-notify.
C8_PatternSemantics ==
    fnOut.some => fnOut.val = Decision(Matched)

(***************************************************************************)
(* SpecMerge: EffectiveConfig::new on drawn policies                       *)
(***************************************************************************)
MergeDaemons ==
    {[min_uid |-> 1000, threshold_seconds |-> th, ignore_patterns |-> ig,
      debug |-> FALSE] :
        th \in {1, 10, 60}, ig \in {<<>>, default_ignore_patterns, <<npm_star, make>>}}
MergeUsers ==
    {None} \cup
    {Some([threshold_seconds |-> th, ignore_patterns |-> ig, always_notify |-> al,
           disabled |-> dis]) :
        th \in {None, Some(1), Some(30)}, ig \in {<<>>, <<ls>>, <<npm_star, cargo>>},
        al \in {<<>>, <<ls, make>>}, dis \in BOOLEAN}

InitMerge ==
    /\ InitCommon
    /\ max_history = 1000
    /\ \E d \in MergeDaemons, u \in MergeUsers :
           fnIn = [fn |-> "EffectiveConfig::new", daemon |-> d, user |-> u]

\* EffectiveConfig::new(&daemon, user)
Merge ==
    /\ fnIn.fn = "EffectiveConfig::new"
    /\ ~fnOut.some
    /\ fnOut' = Some(EffectiveConfigNew(fnIn.daemon, fnIn.user))
    /\ UNCHANGED <<trackerVars, processorVars, ghostVars, kernelVars, localVars, now, fnIn>>

NextMerge == Merge

SpecMerge == InitMerge /\ [][NextMerge]_vars

\* every pattern a drawn policy names
MergeNames ==
    UNION {Range(d.ignore_patterns) : d \in MergeDaemons}
        \cup UNION {Range(u.val.ignore_patterns) \cup Range(u.val.always_notify) :
                       u \in MergeUsers \ {None}}

\* C27 (effective-config merge): the threshold is the user's override when there
\* is a user policy with one, the system's otherwise; a pattern is in the ignore
\* set iff the system's or the user's ignore list names it; a pattern is in the
\* always-notify set iff the user's list names it, and disabled is the user's
\* flag: nothing and false without a user policy.
C27_Merge ==
    fnOut.some =>
        LET e == fnOut.val
            d == fnIn.daemon
            u == fnIn.user
        IN  /\ u = None =>
                   /\ e.threshold_seconds = d.threshold_seconds
                   /\ e.always_notify = {}
                   /\ e.disabled = FALSE
            /\ (u # None /\ u.val.threshold_seconds = None) =>
                   e.threshold_seconds = d.threshold_seconds
            /\ (u # None /\ u.val.threshold_seconds # None) =>
                   e.threshold_seconds = u.val.threshold_seconds.val
            /\ u # None => e.disabled = u.val.disabled
            /\ e.ignore_set \subseteq MergeNames
            /\ e.always_notify \subseteq MergeNames
            /\ \A name \in MergeNames :
                   /\ name \in e.ignore_set <=>
                          \/ Listed(d.ignore_patterns, name)
                          \/ u # None /\ Listed(u.val.ignore_patterns, name)
                   /\ name \in e.always_notify <=>
                          (u # None /\ Listed(u.val.always_notify, name))

\* a user policy with a threshold of 30 s, its own ignore list and always-notify
\* list, merged with the shipped defaults
C27_Witness ==
    /\ fnOut.some
    /\ fnIn.daemon.ignore_patterns = default_ignore_patterns
    /\ fnIn.user # None
    /\ fnIn.user.val.threshold_seconds = Some(30)
    /\ fnIn.user.val.ignore_patterns = <<npm_star, cargo>>
    /\ fnIn.user.val.always_notify = <<ls, make>>
    /\ fnOut.val.threshold_seconds = 30
    /\ cargo \in fnOut.val.ignore_set
    /\ sh \in fnOut.val.ignore_set

(***************************************************************************)
(* SpecLoad: DaemonConfig::load on drawn config files, and the decision    *)
(* under the loaded policy for a user without a policy of their own        *)
(***************************************************************************)
vim == <<"v", "i", "m">>

LoadFiles ==
    {None, Some([parses |-> FALSE, keys |-> <<>>])} \cup
    {Some([parses |-> TRUE,
           keys |-> [min_uid |-> mu, threshold_seconds |-> th, ignore_patterns |-> ig,
                     debug |-> db]]) :
        mu \in {None, Some(0)}, th \in {None, Some(5)},
        ig \in {None, Some(<<>>), Some(<<make>>)}, db \in {None, Some(TRUE)}}
LoadComms == {vim, make, cargo}
LoadSecs == {0, 10, 60}

InitLoad ==
    /\ InitCommon
    /\ max_history = 1000
    /\ \E f \in LoadFiles, c \in LoadComms, s \in LoadSecs :
           fnIn = [fn |-> "DaemonConfig::load", file |-> f, comm |-> c,
                   duration_secs |-> s]

\* main: DaemonConfig::load()?, and what maybe_notify decides under the result
Load ==
    /\ fnIn.fn = "DaemonConfig::load"
    /\ ~fnOut.some
    /\ LET r == DaemonConfigLoad(fnIn.file)
       IN  fnOut' = Some([load |-> r,
                          notified |-> IF r.ok
                                       THEN Some(should_notify(
                                                EffectiveConfigNew(r.val, None),
                                                fnIn.comm, fnIn.duration_secs))
                                       ELSE None])
    /\ UNCHANGED <<trackerVars, processorVars, ghostVars, kernelVars, localVars, now, fnIn>>

NextLoad == Load

SpecLoad == InitLoad /\ [][NextLoad]_vars

\* the file leaves the key out, or there is no file
Omits(key) == fnIn.file = None \/ fnIn.file.val.keys[key] = None

\* C28 (defaults): a load that succeeds gives the shipped ignore list when the
\* file is absent or omits ignore_patterns, and then never notifies "vim"; it
\* gives min_uid 1000 and threshold_seconds 10 when those keys are omitted.
C28_Defaults ==
    (fnOut.some /\ fnOut.val.load.ok) =>
        LET cfg == fnOut.val.load.val
        IN  /\ Omits("ignore_patterns") =>
                   /\ cfg.ignore_patterns = default_ignore_patterns
                   /\ fnIn.comm = vim => fnOut.val.notified = Some(FALSE)
            /\ Omits("min_uid") => cfg.min_uid = 1000
            /\ Omits("threshold_seconds") => cfg.threshold_seconds = 10

(***************************************************************************)
(* SpecNotify: Notifier::notify on drawn CompletedProcess values           *)
(***************************************************************************)
NotifyComms == {make, cargo}
NotifyExitCodes == {0, 1, 101, 255, -1, -9}
NotifySecs == {0, 1, 59, 60, 61, 3599, 3600, 3661, 86399, 90061}
\* the part of the duration below one second
NotifyFractions == {0, TicksPerSec - 1}

NotifySession == discover_session({}, 1000, Some("alice"), "X11").result.val

InitNotify ==
    /\ InitCommon
    /\ max_history = 1000
    /\ \E c \in NotifyComms, code \in NotifyExitCodes, s \in NotifySecs,
          f \in NotifyFractions :
           fnIn = [fn |-> "notify",
                   process |-> [pid |-> 100, tgid |-> 100, uid |-> 1000, comm |-> c,
                                filename |-> <<>>, exit_code |-> code,
                                duration |-> s * TicksPerSec + f]]

\* notifier.notify(&session, process)
Notify ==
    /\ fnIn.fn = "notify"
    /\ ~fnOut.some
    /\ \E sent \in BOOLEAN : fnOut' = Some(notify(NotifySession, fnIn.process, sent))
    /\ UNCHANGED <<trackerVars, processorVars, ghostVars, kernelVars, localVars, now, fnIn>>

NextNotify == Notify

SpecNotify == InitNotify /\ [][NextNotify]_vars

\* does sub occur in s
IsInfix(sub, s) ==
    \E i \in 0..(Len(s) - Len(sub)) : SubSeq(s, i + 1, i + Len(sub)) = sub

\* C13 (notification content): the summary is "Command completed: " followed by
\* the command name; the body starts with "succeeded" exactly when the exit code
\* is 0 and with "failed" otherwise (negative codes too); it has the line
\* "Duration: " followed by the whole seconds s of the duration printed as "Ss"
\* when s < 60, "Mm Ss" when s < 3600 and "Hh Mm Ss" otherwise, H, M, S being the
\* hours, minutes and seconds of s; and it ends with the line "Exit code: "
\* followed by the exit code.
C13_Content ==
    (fnOut.some /\ fnIn.fn = "notify") =>
        LET p == fnIn.process
            out == fnOut.val
            secs == p.duration \div TicksPerSec
            H == secs \div 3600
            M == (secs - 3600 * H) \div 60
            S == secs - 3600 * H - 60 * M
            shown == IF secs < 60 THEN FormatU(S) \o <<"s">>
                     ELSE IF secs < 3600
                          THEN FormatU(M) \o <<"m", " ">> \o FormatU(S) \o <<"s">>
                     ELSE FormatU(H) \o <<"h", " ">> \o FormatU(M) \o <<"m", " ">>
                              \o FormatU(S) \o <<"s">>
        IN  /\ out.summary = <<"C", "o", "m", "m", "a", "n", "d", " ", "c", "o", "m", "p", "l", "e", "t", "e", "d", ":", " ">> \o p.comm
            /\ StartsWith(out.body, <<"s", "u", "c", "c", "e", "e", "d", "e", "d">> \o <<"\n">>) <=> (p.exit_code = 0)
            /\ StartsWith(out.body, <<"f", "a", "i", "l", "e", "d">> \o <<"\n">>) <=> (p.exit_code # 0)
            /\ M < 60 /\ S < 60 /\ 3600 * H + 60 * M + S = secs
            /\ IsInfix(<<"\n">> \o <<"D", "u", "r", "a", "t", "i", "o", "n", ":", " ">> \o shown \o <<"\n">>, out.body)
            /\ EndsWith(out.body, <<"\n">> \o <<"E", "x", "i", "t", " ", "c", "o", "d", "e", ":", " ">> \o FormatI(p.exit_code))
            /\ Cardinality({i \in 1..Len(out.body) : out.body[i] = "\n"}) = 2

\* a process killed by a signal (negative code) after 1 h 1 min 1 s and a bit
C13_Witness ==
    /\ fnOut.some
    /\ fnIn.fn = "notify"
    /\ fnIn.process.exit_code = -9
    /\ fnIn.process.duration = 3661 * TicksPerSec + (TicksPerSec - 1)
    /\ fnOut.val.body = <<"f", "a", "i", "l", "e", "d", "\n", "D", "u", "r", "a", "t", "i", "o", "n", ":", " ", "1", "h", " ", "1", "m", " ", "1", "s", "\n", "E", "x", "i", "t", " ", "c", "o", "d", "e", ":", " ", "-", "9">>

(***************************************************************************)
(* The records in memory: #[repr(C)] layout, the probe's writes, the       *)
(* processor's read.  A record is the sequence of its bytes, the byte at   *)
(* offset o being element o + 1.  The bytes of the scalars are numbers     *)
(* 0..255; the bytes of the names are characters, NUL being the zero byte. *)
(***************************************************************************)
Field(name, size, align) == [name |-> name, size |-> size, align |-> align]

\* mutant: no alignment, as under #[repr(packed)]
AlignUp_packed(off, align) == off

\* the next multiple of align at or after off
AlignUp(off, align) == ((off + align - 1) \div align) * align

\* #[repr(C)]: the offsets of the fields, each at the next multiple of its
\* alignment after the field before it
RECURSIVE ReprC(_, _, _)
ReprC(fields, i, off) ==
    IF i > Len(fields) THEN <<>>
    ELSE LET at == AlignUp(off, fields[i].align)
         IN  <<at>> \o ReprC(fields, i + 1, at + fields[i].size)

OffsetOf(fields, name) ==
    ReprC(fields, 1, 0)[CHOOSE i \in 1..Len(fields) : fields[i].name = name]

Max(S) == CHOOSE x \in S : \A y \in S : y <= x

\* size_of: the end of the last field, rounded up to the alignment of the struct
SizeOf(fields) ==
    LET n == Len(fields)
    IN  AlignUp(ReprC(fields, 1, 0)[n] + fields[n].size,
                Max({fields[i].align : i \in 1..n}))

\* struct ProcessExecEvent
ProcessExecEventFields ==
    <<Field("event_type", 1, 1), Field("_pad", 3, 1), Field("pid", 4, 4),
      Field("tgid", 4, 4), Field("ppid", 4, 4), Field("uid", 4, 4),
      Field("timestamp_ns", 8, 8), Field("comm", COMM_LEN, 1),
      Field("filename", FILENAME_LEN, 1)>>

\* struct ProcessExitEvent
ProcessExitEventFields ==
    <<Field("event_type", 1, 1), Field("_pad", 3, 1), Field("pid", 4, 4),
      Field("tgid", 4, 4), Field("uid", 4, 4), Field("exit_code", 4, 4),
      Field("timestamp_ns", 8, 8), Field("comm", COMM_LEN, 1)>>

\* the little-endian bytes of v, size of them (two's complement when v < 0)
RECURSIVE LE(_, _)
LE(v, size) == IF size = 0 THEN <<>> ELSE <<v % 256>> \o LE(v \div 256, size - 1)

\* *(base.wrapping_add(off) as *mut _) = ..: the bytes bs stored at offset off
WriteAt(buf, off, bs) ==
    SubSeq(buf, 1, off) \o bs \o SubSeq(buf, off + Len(bs) + 1, Len(buf))

\* an unsigned little-endian scalar of `size` bytes at offset off
RECURSIVE ReadU(_, _, _)
ReadU(data, off, size) ==
    IF size = 0 THEN 0 ELSE data[off + 1] + 256 * ReadU(data, off + 1, size - 1)

\* an i32 at offset off
ReadI32(data, off) ==
    LET top == data[off + 4]
    IN  data[off + 1] + 256 * (data[off + 2] + 256 * (data[off + 3]
            + 256 * (IF top >= 128 THEN top - 256 ELSE top)))

\* std::ptr::read_unaligned(data.as_ptr() as *const ProcessExecEvent)
ReadExecEvent(data) ==
    LET at(f) == OffsetOf(ProcessExecEventFields, f)
    IN  [event_type |-> data[at("event_type") + 1],
         pid |-> ReadU(data, at("pid"), 4),
         tgid |-> ReadU(data, at("tgid"), 4),
         ppid |-> ReadU(data, at("ppid"), 4),
         uid |-> ReadU(data, at("uid"), 4),
         timestamp_ns |-> ReadU(data, at("timestamp_ns"), 8),
         comm |-> SubSeq(data, at("comm") + 1, at("comm") + COMM_LEN),
         filename |-> SubSeq(data, at("filename") + 1, at("filename") + FILENAME_LEN)]

\* std::ptr::read_unaligned(data.as_ptr() as *const ProcessExitEvent)
ReadExitEvent(data) ==
    LET at(f) == OffsetOf(ProcessExitEventFields, f)
    IN  [event_type |-> data[at("event_type") + 1],
         pid |-> ReadU(data, at("pid"), 4),
         tgid |-> ReadU(data, at("tgid"), 4),
         uid |-> ReadU(data, at("uid"), 4),
         exit_code |-> ReadI32(data, at("exit_code")),
         timestamp_ns |-> ReadU(data, at("timestamp_ns"), 8),
         comm |-> SubSeq(data, at("comm") + 1, at("comm") + COMM_LEN)]

(***************************************************************************)
(* The kernel probe (notify-done-ebpf/src/main.rs)                         *)
(***************************************************************************)
MIN_UID == 1000

\* EventType::Exec as u8, EventType::Exit as u8
EventTypeExec == 1
EventTypeExit == 2

\* what a tracepoint firing reads: bpf_get_current_uid_gid() as u32, the two
\* halves of bpf_get_current_pid_tgid(), bpf_ktime_get_ns(), ctx.command() (an
\* Option of COMM_LEN bytes), and the code the task exits with (exit firings)
Ctx(uid, pid, tgid, ktime, command, code) ==
    [uid |-> uid, pid |-> pid, tgid |-> tgid, ktime |-> ktime, command |-> command,
     exit_code |-> code]

Zeros(n) == [i \in 1..n |-> NUL]

\* the bytes try_sched_process_exec leaves in the reserved entry
exec_entry(ctx, entry) ==
    LET e0 == WriteAt(entry, 0, <<EventTypeExec, 0, 0, 0>>)
        e1 == WriteAt(e0, 4, LE(ctx.pid, 4))
        e2 == WriteAt(e1, 8, LE(ctx.tgid, 4))
        e3 == WriteAt(e2, 12, LE(0, 4))
        e4 == WriteAt(e3, 16, LE(ctx.uid, 4))
        e5 == WriteAt(e4, 24, LE(ctx.ktime, 8))
        e6 == WriteAt(e5, 32, Zeros(16))
        e7 == IF ctx.command.some THEN WriteAt(e6, 32, ctx.command.val) ELSE e6
    IN  WriteAt(e7, 48, Zeros(256))

\* the bytes try_sched_process_exit leaves in the reserved entry
exit_entry(ctx, entry) ==
    LET e0 == WriteAt(entry, 0, <<EventTypeExit, 0, 0, 0>>)
        e1 == WriteAt(e0, 4, LE(ctx.pid, 4))
        e2 == WriteAt(e1, 8, LE(ctx.tgid, 4))
        e3 == WriteAt(e2, 12, LE(ctx.uid, 4))
        e4 == WriteAt(e3, 16, LE(0, 4))
        e5 == WriteAt(e4, 24, LE(ctx.ktime, 8))
        e6 == WriteAt(e5, 32, Zeros(16))
    IN  IF ctx.command.some THEN WriteAt(e6, 32, ctx.command.val) ELSE e6

\* EVENTS.reserve::<T>(0) when it succeeds: an entry of size_of::<T>() bytes
\* whose content is whatever the ring held there (every byte junk)
ReservedEntry(fields, junk) == Some([i \in 1..SizeOf(fields) |-> junk])

\* mutant: the uid filter lets uid MIN_UID - 1 through
try_sched_process_exec_off_by_one(ctx, slot) ==
    IF ctx.uid < MIN_UID - 1
    THEN [result |-> "Ok", reserve_called |-> FALSE, submitted |-> None]
    ELSE IF slot.some
         THEN [result |-> "Ok", reserve_called |-> TRUE,
               submitted |-> Some(exec_entry(ctx, slot.val))]
         ELSE [result |-> "Ok", reserve_called |-> TRUE, submitted |-> None]

\* try_sched_process_exec; slot is what EVENTS.reserve answers when it is called
try_sched_process_exec(ctx, slot) ==
    IF ctx.uid < MIN_UID
    THEN [result |-> "Ok", reserve_called |-> FALSE, submitted |-> None]
    ELSE IF slot.some
         THEN [result |-> "Ok", reserve_called |-> TRUE,
               submitted |-> Some(exec_entry(ctx, slot.val))]
         ELSE [result |-> "Ok", reserve_called |-> TRUE, submitted |-> None]

\* try_sched_process_exit
try_sched_process_exit(ctx, slot) ==
    IF ctx.uid < MIN_UID
    THEN [result |-> "Ok", reserve_called |-> FALSE, submitted |-> None]
    ELSE IF slot.some
         THEN [result |-> "Ok", reserve_called |-> TRUE,
               submitted |-> Some(exit_entry(ctx, slot.val))]
         ELSE [result |-> "Ok", reserve_called |-> TRUE, submitted |-> None]

\* mutant: a failed reservation is reported to the kernel as an error
sched_process_exec_reports_failure(ctx, slot) ==
    LET r == try_sched_process_exec(ctx, slot)
    IN  [ret |-> IF r.reserve_called /\ ~r.submitted.some THEN 1 ELSE 0,
         reserve_called |-> r.reserve_called, submitted |-> r.submitted]

\* sched_process_exec: the value returned to the kernel and the record submitted
sched_process_exec(ctx, slot) ==
    LET r == try_sched_process_exec(ctx, slot)
    IN  [ret |-> IF r.result = "Ok" THEN 0 ELSE 0,
         reserve_called |-> r.reserve_called, submitted |-> r.submitted]

\* sched_process_exit
sched_process_exit(ctx, slot) ==
    LET r == try_sched_process_exit(ctx, slot)
    IN  [ret |-> IF r.result = "Ok" THEN 0 ELSE 0,
         reserve_called |-> r.reserve_called, submitted |-> r.submitted]

(***************************************************************************)
(* SpecLayout: one record written by the probe and read by the processor   *)
(***************************************************************************)
\* a name that fills the field, no NUL in it
SixteenChars ==
    <<"a", "b", "c", "d", "e", "f", "g", "h", "i", "j", "k", "l", "m", "n", "o", "p">>

LayoutKinds == {"exec", "exit"}
LayoutUids == {1000, 65534}
LayoutPids == {100, 4194304}
LayoutTgids == {100, 70000}
LayoutTimes == {0, 1, 1073742337}
LayoutNames == {make, SixteenChars}
LayoutJunk == {0, 255}
\* values of the fields the probe always writes as 0
LayoutPpids == {0, 77}
LayoutCodes == {0, 101, -9}

InitLayout ==
    /\ InitCommon
    /\ max_history = 1000
    /\ \E kind \in LayoutKinds, uid \in LayoutUids, pid \in LayoutPids,
          tgid \in LayoutTgids, ktime \in LayoutTimes, name \in LayoutNames,
          command_ok \in BOOLEAN, junk \in LayoutJunk, ppid \in LayoutPpids,
          code \in LayoutCodes :
           fnIn = [fn |-> "layout", kind |-> kind, name |-> name, junk |-> junk,
                   ppid |-> ppid,
                   ctx |-> Ctx(uid, pid, tgid, ktime,
                               IF command_ok THEN Some(Pad(name, COMM_LEN)) ELSE None,
                               code)]

\* the probe fills and submits an entry; process_events reads it as the struct
WriteAndRead ==
    /\ fnIn.fn = "layout"
    /\ ~fnOut.some
    /\ fnOut' =
           IF fnIn.kind = "exec"
           THEN LET data == sched_process_exec(
                                fnIn.ctx,
                                ReservedEntry(ProcessExecEventFields, fnIn.junk)).submitted.val
                IN  Some([data |-> data, event |-> ReadExecEvent(data)])
           ELSE LET data == sched_process_exit(
                                fnIn.ctx,
                                ReservedEntry(ProcessExitEventFields, fnIn.junk)).submitted.val
                IN  Some([data |-> data, event |-> ReadExitEvent(data)])
    /\ UNCHANGED <<trackerVars, processorVars, ghostVars, kernelVars, localVars, now, fnIn>>

NextLayout == WriteAndRead

SpecLayout == InitLayout /\ [][NextLayout]_vars

\* the offsets of section 6
ClaimedExec ==
    [event_type |-> 0, pid |-> 4, tgid |-> 8, ppid |-> 12, uid |-> 16,
     timestamp_ns |-> 24, comm |-> 32, filename |-> 48]
ClaimedExit ==
    [event_type |-> 0, pid |-> 4, tgid |-> 8, uid |-> 12, exit_code |-> 16,
     timestamp_ns |-> 24, comm |-> 32]

\* a record of n bytes built byte by byte: the bytes of each value at its offset
\* of section 6, zero everywhere else
BuiltExec(v) ==
    LET b0 == [i \in 1..304 |-> 0]
        b1 == WriteAt(b0, ClaimedExec.event_type, <<1>>)
        b2 == WriteAt(b1, ClaimedExec.pid, LE(v.pid, 4))
        b3 == WriteAt(b2, ClaimedExec.tgid, LE(v.tgid, 4))
        b4 == WriteAt(b3, ClaimedExec.ppid, LE(v.ppid, 4))
        b5 == WriteAt(b4, ClaimedExec.uid, LE(v.uid, 4))
        b6 == WriteAt(b5, ClaimedExec.timestamp_ns, LE(v.timestamp_ns, 8))
        b7 == WriteAt(b6, ClaimedExec.comm, v.comm)
    IN  WriteAt(b7, ClaimedExec.filename, Zeros(256))

BuiltExit(v) ==
    LET b0 == [i \in 1..48 |-> 0]
        b1 == WriteAt(b0, ClaimedExit.event_type, <<2>>)
        b2 == WriteAt(b1, ClaimedExit.pid, LE(v.pid, 4))
        b3 == WriteAt(b2, ClaimedExit.tgid, LE(v.tgid, 4))
        b4 == WriteAt(b3, ClaimedExit.uid, LE(v.uid, 4))
        b5 == WriteAt(b4, ClaimedExit.exit_code, LE(v.exit_code, 4))
        b6 == WriteAt(b5, ClaimedExit.timestamp_ns, LE(v.timestamp_ns, 8))
    IN  WriteAt(b6, ClaimedExit.comm, v.comm)

\* the two records agree on every byte that belongs to a field
SameFields(data, built) ==
    /\ Len(data) = Len(built)
    /\ \A i \in 1..Len(built) : i \notin 21..24 => data[i] = built[i]

\* C14 (record layout): the offsets at which the processor reads the fields are
\* exec: tag 0, pid 4, tgid 8, ppid 12, uid 16, timestamp 24, comm 32, filename 48
\* (304 bytes) and exit: tag 0, pid 4, tgid 8, uid 12, exit code 16, timestamp 24,
\* comm 32 (48 bytes); the probe writes each field at these offsets; and a record
\* built byte by byte at these offsets is read back as the same scalars and as
\* the name up to the first NUL, or all 16 bytes when there is none.
C14_Layout ==
    (fnOut.some /\ fnIn.fn = "layout") =>
        LET c == fnIn.ctx
            named == IF c.command.some THEN fnIn.name ELSE <<>>
            comm == IF c.command.some THEN c.command.val ELSE Zeros(16)
        IN  IF fnIn.kind = "exec"
            THEN LET wrote == [pid |-> c.pid, tgid |-> c.tgid, ppid |-> 0, uid |-> c.uid,
                               timestamp_ns |-> c.ktime, comm |-> comm]
                     any == [wrote EXCEPT !.ppid = fnIn.ppid]
                     back == ReadExecEvent(BuiltExec(any))
                 IN  /\ \A f \in DOMAIN ClaimedExec :
                            OffsetOf(ProcessExecEventFields, f) = ClaimedExec[f]
                     /\ SizeOf(ProcessExecEventFields) = 304
                     /\ SameFields(fnOut.val.data, BuiltExec(wrote))
                     /\ [f \in DOMAIN wrote |-> fnOut.val.event[f]] = wrote
                     /\ fnOut.val.event.event_type = 1
                     /\ comm_str(fnOut.val.event) = named
                     /\ [f \in DOMAIN any |-> back[f]] = any
                     /\ comm_str(back) = named
                     /\ filename_str(back) = <<>>
            ELSE LET wrote == [pid |-> c.pid, tgid |-> c.tgid, uid |-> c.uid,
                               exit_code |-> 0, timestamp_ns |-> c.ktime, comm |-> comm]
                     any == [wrote EXCEPT !.exit_code = c.exit_code]
                     back == ReadExitEvent(BuiltExit(any))
                 IN  /\ \A f \in DOMAIN ClaimedExit :
                            OffsetOf(ProcessExitEventFields, f) = ClaimedExit[f]
                     /\ SizeOf(ProcessExitEventFields) = 48
                     /\ SameFields(fnOut.val.data, BuiltExit(wrote))
                     /\ [f \in DOMAIN wrote |-> fnOut.val.event[f]] = wrote
                     /\ fnOut.val.event.event_type = 2
                     /\ comm_str(fnOut.val.event) = named
                     /\ [f \in DOMAIN any |-> back[f]] = any
                     /\ comm_str(back) = named

\* an exit record with a name that fills the field, a negative exit code in the
\* record built by hand, written into an entry full of 0xFF bytes
C14_Witness ==
    /\ fnOut.some
    /\ fnIn.fn = "layout"
    /\ fnIn.kind = "exit"
    /\ fnIn.junk = 255
    /\ fnIn.ctx.exit_code = -9
    /\ fnIn.ctx.ktime > 1
    /\ comm_str(fnOut.val.event) = SixteenChars
    /\ fnOut.val.event.tgid = 70000

(***************************************************************************)
(* SpecPipeline: the probe fires in the kernel and submits to the ring     *)
(* while the daemon drains it (process_events) and runs its cleanup tick.  *)
(***************************************************************************)
\* bound: the records submitted to the ring in a run
MaxRecords == 3

PipelineClock == {0, StaleAge + 1}
\* thread group 100 belongs to a user, thread group 101 to a system account
ProbeUidOf(g) == IF g = 100 THEN 1000 ELSE 999
ProbeExitCodes == {101}
CommOf(g) == IF g = 100 THEN make ELSE cargo

\* records no probe writes: an empty one, one with tag 3 that is otherwise the
\* exit record of tgid 100, and one with tag 2 that stops after four bytes
ForeignData ==
    {<<>>,
     WriteAt(exit_entry(Ctx(1000, 100, 100, 0, None, 0),
                        ReservedEntry(ProcessExitEventFields, 0).val), 0, <<3>>),
     <<EventTypeExit, 0, 0, 0>>}

\* the firing leaves the daemon's state alone
ProbeFrame ==
    /\ returned' = None
    /\ pipeline' = <<>>
    /\ UNCHANGED <<trackerVars, processorVars, fnVars, now, lastRecord, completions,
                   served, undiscovered, draining, taken, applied, mainloop, localVars>>

\* EVENTS.reserve: succeeds or fails (the ring of RING_BUF_SIZE bytes is full, or
\* the kernel refuses), as the environment decides
Reserve(fields, ok) == IF ok THEN ReservedEntry(fields, 255) ELSE None

\* the tracepoint sched:sched_process_exec fires for a task of thread group g
FireExecOf(g, ok) ==
        LET ctx == Ctx(ProbeUidOf(g), g, g, now, Some(Pad(CommOf(g), COMM_LEN)), 0)
            slot == Reserve(ProcessExecEventFields, ok)
            r == sched_process_exec(ctx, slot)
        IN  /\ produced < MaxRecords
            /\ ring' = IF r.submitted.some
                       THEN Append(ring, [n |-> produced + 1, data |-> r.submitted.val,
                                          note |-> [kind |-> "exec"]])
                       ELSE ring
            /\ produced' = IF r.submitted.some THEN produced + 1 ELSE produced
            /\ lastExec' = IF ~r.reserve_called THEN lastExec
                           ELSE IF r.submitted.some
                                THEN [lastExec EXCEPT ![g] = [status |-> "delivered",
                                                              n |-> produced + 1]]
                           ELSE [lastExec EXCEPT ![g] = [status |-> "dropped", n |-> 0]]
            /\ lostExit' = lostExit
            /\ lastStep' = [op |-> "sched_process_exec", ctx |-> ctx, ret |-> r.ret,
                            reserve_called |-> r.reserve_called,
                            reserved |-> r.reserve_called /\ slot.some]
            /\ ProbeFrame

\* the tracepoint sched:sched_process_exit fires for a task of thread group g
FireExitOf(g, code, ok) ==
        LET ctx == Ctx(ProbeUidOf(g), g, g, now, Some(Pad(CommOf(g), COMM_LEN)), code)
            slot == Reserve(ProcessExitEventFields, ok)
            r == sched_process_exit(ctx, slot)
        IN  /\ produced < MaxRecords
            /\ ring' = IF r.submitted.some
                       THEN Append(ring, [n |-> produced + 1, data |-> r.submitted.val,
                                          note |-> [kind |-> "exit", code |-> code,
                                                    exec_was |-> lastExec[g].status]])
                       ELSE ring
            /\ produced' = IF r.submitted.some THEN produced + 1 ELSE produced
            /\ lastExec' = IF r.reserve_called
                           THEN [lastExec EXCEPT ![g] = [status |-> "none", n |-> 0]]
                           ELSE lastExec
            /\ lostExit' = IF r.reserve_called /\ ~r.submitted.some
                              /\ lastExec[g].status = "delivered"
                           THEN [lostExit EXCEPT ![g] = lastExec[g].n]
                           ELSE lostExit
            /\ lastStep' = [op |-> "sched_process_exit", ctx |-> ctx, ret |-> r.ret,
                            reserve_called |-> r.reserve_called,
                            reserved |-> r.reserve_called /\ slot.some]
            /\ ProbeFrame

FireExec == \E g \in Tgids, ok \in BOOLEAN : FireExecOf(g, ok)

FireExit ==
    \E g \in Tgids, code \in ProbeExitCodes, ok \in BOOLEAN : FireExitOf(g, code, ok)

\* a record that is not the probe's appears in the ring
ForeignRecord ==
    \E data \in ForeignData :
        /\ produced < MaxRecords
        /\ ring' = Append(ring, [n |-> produced + 1, data |-> data,
                                 note |-> [kind |-> "foreign"]])
        /\ produced' = produced + 1
        /\ lastStep' = [op |-> "foreign"]
        /\ UNCHANGED <<lastExec, lostExit>>
        /\ ProbeFrame

\* mutant: every tag that is not Exec is taken for an exit
dispatch_else_exit(data) ==
    IF Len(data) = 0 THEN "empty"
    ELSE IF data[1] = EventTypeExec
         THEN IF Len(data) >= SizeOf(ProcessExecEventFields) THEN "exec" ELSE "short"
    ELSE IF Len(data) >= SizeOf(ProcessExitEventFields) THEN "exit" ELSE "short"

\* process_events: the arm the loop body takes for a record
dispatch(data) ==
    IF Len(data) = 0 THEN "empty"
    ELSE IF data[1] = EventTypeExec
         THEN IF Len(data) >= SizeOf(ProcessExecEventFields) THEN "exec" ELSE "short"
    ELSE IF data[1] = EventTypeExit
         THEN IF Len(data) >= SizeOf(ProcessExitEventFields) THEN "exit" ELSE "short"
    ELSE "unknown"

\* the record is passed over (continue, a failed size test, or the warning)
Skip(why) ==
    /\ lastStep' = [op |-> "skip", why |-> why]
    /\ returned' = None
    /\ pipeline' = <<>>
    /\ UNCHANGED <<trackerVars, processorVars, fnVars, now, lastRecord, completions,
                   served, undiscovered, applied>>

\* process_events, one turn of the loop with ring_buf.next() = Some(record);
\* sent: whether the delivery command, if it is run, succeeds
TakeRecord(sent) ==
    /\ ring # <<>>
    /\ LET head == Head(ring)
           arm == dispatch(head.data)
       IN  /\ ring' = Tail(ring)
           /\ taken' = [n |-> head.n, note |-> head.note]
           /\ draining' = TRUE
           /\ UNCHANGED <<produced, lastExec, lostExit>>
           /\ IF arm = "exec"
              THEN LET event == ReadExecEvent(head.data)
                   IN  /\ HandleExec(event)
                       /\ applied' = [applied EXCEPT ![event.tgid] = head.n]
              ELSE IF arm = "exit"
              THEN LET event == ReadExitEvent(head.data)
                       owner == HashMapGet(processes, event.tgid)
                       uid == IF owner.some THEN owner.val.uid ELSE event.uid
                   IN  /\ HandleExit(event, DeliveryEnv(uid, sent))
                       /\ applied' = [applied EXCEPT ![event.tgid] = 0]
              ELSE Skip(arm)

ProcessNext == TakeRecord(TRUE) /\ UNCHANGED <<mainloop, localVars>>

\* mutant: process_events returns after the record it handled (if let for
\* while let)
ProcessEventsReturn_after_one ==
    /\ draining
    /\ draining' = FALSE
    /\ lastStep' = [op |-> "process_events_return"]
    /\ returned' = None
    /\ pipeline' = <<>>
    /\ UNCHANGED <<trackerVars, processorVars, fnVars, now, lastRecord, completions,
                   served, undiscovered, ring, produced, taken, lastExec, lostExit, applied,
                   mainloop, localVars>>

\* process_events, ring_buf.next() = None: the loop ends and the call returns
ProcessEventsReturn ==
    /\ draining
    /\ ring = <<>>
    /\ draining' = FALSE
    /\ lastStep' = [op |-> "process_events_return"]
    /\ returned' = None
    /\ pipeline' = <<>>
    /\ UNCHANGED <<trackerVars, processorVars, fnVars, now, lastRecord, completions,
                   served, undiscovered, ring, produced, taken, lastExec, lostExit, applied,
                   mainloop, localVars>>

\* the cleanup arm of the select! loop: only between two calls of process_events
PipelineCleanup ==
    /\ ~draining
    /\ Cleanup
    /\ applied' = [g \in Tgids |-> IF HashMapContainsKey(processes', g) THEN applied[g]
                                   ELSE 0]
    /\ UNCHANGED <<ring, draining, produced, taken, lastExec, lostExit, mainloop, localVars>>

PipelineTick == AdvanceClock(PipelineClock)

InitPipeline ==
    /\ InitCommon
    /\ fnIn = [fn |-> "none"]
    /\ max_history = 1000

NextPipeline ==
    \/ PipelineTick
    \/ FireExec
    \/ FireExit
    \/ ProcessNext
    \/ ProcessEventsReturn
    \/ PipelineCleanup

SpecPipeline == InitPipeline /\ [][NextPipeline]_vars

(***************************************************************************)
(* SpecDrain: process_events on a ring that receives the records of thread *)
(* group 100 and records that are not the probe's.                         *)
(***************************************************************************)
SubmitExec == FireExecOf(100, TRUE)

SubmitExit == \E code \in ProbeExitCodes : FireExitOf(100, code, TRUE)

NextDrain ==
    \/ SubmitExec
    \/ SubmitExit
    \/ ForeignRecord
    \/ ProcessNext
    \/ ProcessEventsReturn

SpecDrain == InitPipeline /\ [][NextDrain]_vars

(***************************************************************************)
(* Claims about the probe and the pipeline (SpecPipeline)                  *)
(***************************************************************************)
Fired(step) == step.op \in {"sched_process_exec", "sched_process_exit"}

\* C12 (exit code end to end): the exit record the probe submits carries the code
\* the process exits with, and the CompletedProcess made from it carries that
\* code; for code 101 the notification body has "failed" and "Exit code: 101".
C12_ExitCodeCarried ==
    /\ (lastStep.op = "sched_process_exit" /\ lastStep.reserved) =>
           ReadExitEvent(ring[Len(ring)].data).exit_code = lastStep.ctx.exit_code
    /\ (lastStep.op = "on_exit" /\ returned.some) =>
           /\ returned.val.exit_code = taken.note.code
           /\ \A i \in 1..Len(pipeline) :
                  (pipeline[i].step = "notify" /\ taken.note.code = 101) =>
                      /\ IsInfix(<<"f", "a", "i", "l", "e", "d">>, pipeline[i].body)
                      /\ IsInfix(<<"E", "x", "i", "t", " ", "c", "o", "d", "e", ":", " ", "1", "0", "1">>, pipeline[i].body)

\* C15 (uid filter): a firing with uid < 1000 calls no reservation and leaves the
\* ring as it was; a firing with uid >= 1000 whose reservation succeeds appends
\* exactly one record to the ring, of tag 1 for exec and 2 for exit and of the
\* size of its struct, that carries the firing's pid, tgid, uid and timestamp.
C15_UidFilter ==
    [][Fired(lastStep') =>
          LET c == lastStep'.ctx
              exec == lastStep'.op = "sched_process_exec"
          IN  /\ c.uid < 1000 =>
                     /\ ~lastStep'.reserve_called
                     /\ ring' = ring
                     /\ produced' = produced
              /\ (c.uid >= 1000 /\ lastStep'.reserved) =>
                     /\ Len(ring') = Len(ring) + 1
                     /\ SubSeq(ring', 1, Len(ring)) = ring
                     /\ LET data == ring'[Len(ring')].data
                        IN  /\ data[1] = IF exec THEN 1 ELSE 2
                            /\ Len(data) = IF exec THEN 304 ELSE 48
                            /\ ReadU(data, 4, 4) = c.pid
                            /\ ReadU(data, 8, 4) = c.tgid
                            /\ ReadU(data, IF exec THEN 16 ELSE 12, 4) = c.uid
                            /\ ReadU(data, 24, 8) = c.ktime]_vars

\* a firing of the system account's process, dropped by the filter after two
\* records of the user's process went into the ring at a late timestamp
C15_Witness ==
    /\ lastStep.op = "sched_process_exit"
    /\ lastStep.ctx.uid = 999
    /\ ~lastStep.reserve_called
    /\ Len(ring) = 2
    /\ dispatch(ring[1].data) = "exec"
    /\ dispatch(ring[2].data) = "exit"
    /\ ReadExecEvent(ring[1].data).uid = 1000
    /\ ReadExitEvent(ring[2].data).timestamp_ns > StaleAge

\* the record handled by this step is an exit whose process's last exec found
\* the ring full
OrphanCase == lastStep'.op = "on_exit" /\ taken'.n # taken.n /\ taken'.note.exec_was = "dropped"

\* the exec record of rank applied[g] made the entry of g and the exit of that
\* process found the ring full
LostExitCase(g) == lostExit[g] # 0 /\ applied[g] = lostExit[g]

NothingCompleted ==
    /\ returned' = None
    /\ processes' = processes
    /\ history' = history
    /\ pipeline' = <<>>

\* C30 (stale eviction): a sweep returns no completion, adds nothing to the
\* history and notifies nobody, whatever it removes; an exit record of a tgid
\* whose entry a sweep removed, no exec record of the tgid handled since, is an
\* orphan: nothing returned, table and history as they were, no notification.
C30_SilentEviction ==
    [][/\ lastStep'.op = "cleanup_stale" =>
              /\ processes' \subseteq processes
              /\ returned' = None
              /\ history' = history
              /\ completions' = completions
              /\ pipeline' = <<>>
       /\ (lastStep'.op = "on_exit" /\ lastStep'.prior.kind = "evicted") =>
              /\ NothingCompleted
              /\ completions' = completions]_vars

\* the exit record of a process whose exec was delivered and whose entry a sweep
\* removed: dropped, with nothing ever completed
C30_Witness ==
    /\ lastStep.op = "on_exit"
    /\ lastStep.prior.kind = "evicted"
    /\ taken.note.kind = "exit"
    /\ taken.note.exec_was = "delivered"
    /\ returned = None
    /\ history = <<>>
    /\ completions = <<>>
    /\ processes = {}

ProbeNeverFails ==
    Fired(lastStep') =>
        /\ lastStep'.ret = 0
        /\ (lastStep'.reserve_called /\ ~lastStep'.reserved) =>
               /\ ring' = ring
               /\ produced' = produced

\* C16 as stated (best effort): a failed reservation submits nothing and both
\* programs return 0 in every case; an exit record whose process's exec was
\* dropped is handled as an orphan; the entry of a process whose exit was dropped
\* stays in the active table until a stale sweep.
C16_BestEffort ==
    [][/\ ProbeNeverFails
       /\ OrphanCase => NothingCompleted
       /\ \A g \in Tgids :
              (LostExitCase(g) /\ lastStep'.op # "cleanup_stale") =>
                  HashMapContainsKey(processes', g)]_vars

\* C16 amended: a failed reservation submits nothing and both programs return 0
\* in every case; an exit record whose process's exec was dropped is handled as an
\* orphan when the active table has no entry for its tgid, and completes the entry
\* of the earlier exec of that tgid otherwise; the entry of a process whose exit
\* was dropped stays in the active table until a stale sweep or until a later
\* exit record of the same tgid is handled.
C16_BestEffortAmended ==
    [][/\ ProbeNeverFails
       /\ OrphanCase =>
              IF HashMapContainsKey(processes, lastStep'.event.tgid)
              THEN /\ returned'.some
                   /\ returned'.val.comm
                          = HashMapGet(processes, lastStep'.event.tgid).val.comm
                   /\ returned'.val.pid
                          = HashMapGet(processes, lastStep'.event.tgid).val.pid
                   /\ ~HashMapContainsKey(processes', lastStep'.event.tgid)
              ELSE NothingCompleted
       /\ \A g \in Tgids :
              (/\ LostExitCase(g)
               /\ lastStep'.op # "cleanup_stale"
               /\ ~(lastStep'.op = "on_exit" /\ lastStep'.event.tgid = g)) =>
                  HashMapContainsKey(processes', g)]_vars

\* an exit handled as an orphan after its exec found the ring full, in a run
\* where an earlier exit of the tgid was dropped and a sweep removed the entry
C16_Witness ==
    /\ lastStep.op = "on_exit"
    /\ taken.note.kind = "exit"
    /\ taken.note.exec_was = "dropped"
    /\ returned = None
    /\ lostExit[100] # 0
    /\ lastStep.prior.kind = "evicted"

(***************************************************************************)
(* Claims about the drain (SpecDrain)                                      *)
(***************************************************************************)
Took == taken'.n # taken.n

\* C17 (drain): process_events takes the records in the order of submission, none
\* skipped, and returns only when the ring is empty, every submitted record
\* taken; a taken record is handled by on_exec iff its tag is 1 and by on_exit iff
\* its tag is 2, with the fields read from that record; an exit whose exec was
\* submitted before it finds the entry that exec made.
C17_Drain ==
    [][/\ Took =>
              /\ ring # <<>>
              /\ taken'.n = ring[1].n
              /\ taken'.n = taken.n + 1
              /\ ring' = Tail(ring)
              /\ LET data == ring[1].data
                 IN  /\ (lastStep'.op = "on_exec") <=> (Len(data) >= 304 /\ data[1] = 1)
                     /\ (lastStep'.op = "on_exit") <=> (Len(data) >= 48 /\ data[1] = 2)
                     /\ lastStep'.op \in {"on_exec", "on_exit"} =>
                            /\ lastStep'.event.tgid = ReadU(data, 8, 4)
                            /\ lastStep'.event.timestamp_ns = ReadU(data, 24, 8)
       /\ (draining /\ ~draining') =>
              /\ ring = <<>>
              /\ taken.n = produced
       /\ (Took /\ lastStep'.op = "on_exit" /\ taken'.note.exec_was = "delivered") =>
              /\ applied[lastStep'.event.tgid] # 0
              /\ applied[lastStep'.event.tgid] < taken'.n
              /\ returned'.some]_vars

\* process_events returns after three records, the last of them an exit that
\* completed the process of an exec taken before it
C17_Witness ==
    /\ lastStep.op = "process_events_return"
    /\ ~draining
    /\ ring = <<>>
    /\ produced = 3
    /\ taken.n = 3
    /\ taken.note.kind = "exit"
    /\ Len(completions) = 1

ForeignHead == Len(ring[1].data) = 0 \/ ring[1].data[1] \notin {1, 2}

\* C18 (unknown tag): taking a record that is empty or whose first byte is
\* neither 1 nor 2 leaves the active table, the history, the session cache, the
\* user-config cache and the username cache as they were, notifies nobody, and
\* the call goes on: the record is off the ring, the loop is still running, and
\* it ends only on an empty ring.
C18_UnknownTag ==
    [][/\ (Took /\ ForeignHead) =>
              /\ NothingCompleted
              /\ sessions' = sessions
              /\ user_configs' = user_configs
              /\ usernames' = usernames
              /\ lastStep'.op = "skip"
              /\ ring' = Tail(ring)
              /\ draining'
       /\ (lastStep.op = "skip" /\ ~draining') => ring = <<>>]_vars

\* a record of tag 3 was skipped while a process is active and its exit record
\* is next in the ring
C18_Witness ==
    /\ lastStep.op = "skip"
    /\ lastStep.why = "unknown"
    /\ taken.note.kind = "foreign"
    /\ draining
    /\ processes # {}
    /\ ring # <<>>
    /\ dispatch(ring[1].data) = "exit"

(***************************************************************************)
(* SpecLoop: main's event loop.  pc is "select" while the loop waits in    *)
(* tokio::select!, "drain" inside process_events between two records,      *)
(* "deliver" inside the notifier while the delivery command runs, and      *)
(* "stopped" once the loop has been left.                                  *)
(***************************************************************************)
MaxBacklog == 2

\* Command::output() of systemd-run: it ran and exited 0, it could not be run,
\* or it exited non-zero
DeliveryOutcomes == {"success", "spawn_error", "exit_nonzero"}

LoopTick == mainloop.pc # "stopped" /\ AdvanceClock(PipelineClock)

\* the probes stay attached until main returns
LoopFireExec == mainloop.pc # "stopped" /\ SubmitExec

LoopFireExit == mainloop.pc # "stopped" /\ SubmitExit

\* processes of uid 1000 go on exiting: one more exit record of a process the
\* daemon has no entry for or has one for (its rank is not counted further)
LoopFireMore ==
    LET ctx == Ctx(ProbeUidOf(100), 100, 100, now, Some(Pad(CommOf(100), COMM_LEN)),
                   101)
        r == sched_process_exit(ctx, Reserve(ProcessExitEventFields, TRUE))
    IN  /\ mainloop.pc # "stopped"
        /\ produced = MaxRecords
        /\ Len(ring) < MaxBacklog
        /\ ring' = Append(ring, [n |-> produced, data |-> r.submitted.val,
                                 note |-> [kind |-> "exit", code |-> 101,
                                           exec_was |-> lastExec[100].status]])
        /\ lastExec' = [lastExec EXCEPT ![100] = [status |-> "none", n |-> 0]]
        /\ lastStep' = [op |-> "sched_process_exit", ctx |-> ctx, ret |-> r.ret,
                        reserve_called |-> r.reserve_called, reserved |-> TRUE]
        /\ UNCHANGED <<produced, lostExit>>
        /\ ProbeFrame

\* select!: the 100 ms sleep completed and process_events is called
LoopSleep ==
    /\ mainloop.pc = "select"
    /\ mainloop' = [mainloop EXCEPT !.pc = "drain"]
    /\ draining' = TRUE
    /\ lastStep' = [op |-> "process_events"]
    /\ returned' = None
    /\ pipeline' = <<>>
    /\ UNCHANGED <<trackerVars, processorVars, fnVars, now, lastRecord, completions,
                   served, undiscovered, ring, produced, taken, lastExec, lostExit,
                   applied, localVars>>

\* the notifier call of the last handle_exit, if it made one
Launched(did) == {i \in 1..Len(did) : did[i].step = "notify"}

\* process_events takes the next record; when handling it reaches the notifier,
\* the delivery command is started and the call waits in Command::output()
LoopTake ==
    /\ mainloop.pc = "drain"
    /\ \E outcome \in DeliveryOutcomes :
           /\ TakeRecord(outcome = "success")
           /\ mainloop' = [mainloop EXCEPT
                               !.pc = IF Launched(pipeline') # {} THEN "deliver"
                                      ELSE "drain",
                               !.delivery = IF Launched(pipeline') # {}
                                            THEN Some(outcome) ELSE None,
                               !.sig_then_took = mainloop.sigint]
    /\ UNCHANGED localVars

\* mutant: a failed delivery is propagated with `?` and ends process_events
LoopDelivered_propagates ==
    /\ mainloop.pc = "deliver"
    /\ mainloop' = [mainloop EXCEPT
                        !.pc = IF mainloop.delivery.val = "success" THEN "drain"
                               ELSE "select",
                        !.delivery = None]
    /\ draining' = (mainloop.delivery.val = "success")
    /\ lastStep' = [op |-> "notify_returned",
                    result |-> IF mainloop.delivery.val = "success" THEN "Ok" ELSE "Err"]
    /\ returned' = None
    /\ pipeline' = <<>>
    /\ UNCHANGED <<trackerVars, processorVars, fnVars, now, lastRecord, completions,
                   served, undiscovered, ring, produced, taken, lastExec, lostExit,
                   applied, localVars>>

\* the delivery command has ended: send_notify_send returns Ok or Err,
\* maybe_notify logs it, handle_exit returns and the while loop goes on
LoopDelivered ==
    /\ mainloop.pc = "deliver"
    /\ mainloop' = [mainloop EXCEPT !.pc = "drain", !.delivery = None]
    /\ lastStep' = [op |-> "notify_returned",
                    result |-> IF mainloop.delivery.val = "success" THEN "Ok" ELSE "Err"]
    /\ returned' = None
    /\ pipeline' = <<>>
    /\ UNCHANGED <<trackerVars, processorVars, fnVars, now, lastRecord, completions,
                   served, undiscovered, ring, draining, produced, taken, lastExec,
                   lostExit, applied, localVars>>

\* process_events, ring_buf.next() = None: back to the select!
LoopReturn ==
    /\ mainloop.pc = "drain"
    /\ ring = <<>>
    /\ mainloop' = [mainloop EXCEPT !.pc = "select"]
    /\ draining' = FALSE
    /\ lastStep' = [op |-> "process_events_return"]
    /\ returned' = None
    /\ pipeline' = <<>>
    /\ UNCHANGED <<trackerVars, processorVars, fnVars, now, lastRecord, completions,
                   served, undiscovered, ring, produced, taken, lastExec, lostExit,
                   applied, localVars>>

\* select!: cleanup_interval.tick() completed
LoopCleanup == mainloop.pc = "select" /\ PipelineCleanup

\* SIGINT is sent to the daemon.  The ctrl_c() future of the select! the loop
\* waits in sees it; one sent while the loop is inside a handler is seen by the
\* next select! or is lost (the future is made anew by every select!)
Sigint ==
    /\ mainloop.pc # "stopped"
    /\ ~mainloop.sigint
    /\ \E heard \in BOOLEAN :
           /\ mainloop.pc = "select" => heard
           /\ mainloop' = [mainloop EXCEPT !.sigint = heard, !.sig_pc = mainloop.pc,
                                           !.sig_then_took = FALSE]
    /\ lastStep' = [op |-> "SIGINT"]
    /\ UNCHANGED <<trackerVars, processorVars, fnVars, now, returned, pipeline,
                   lastRecord, completions, served, undiscovered, ring, draining,
                   produced, taken, lastExec, lostExit, applied, localVars>>

\* mutant: the interrupt ends the loop wherever it is
LoopBreak_abort ==
    /\ mainloop.pc # "stopped"
    /\ mainloop.sigint
    /\ mainloop' = [mainloop EXCEPT !.pc = "stopped", !.sigint = FALSE,
                                    !.exit_code = Some(0)]
    /\ lastStep' = [op |-> "break"]
    /\ UNCHANGED <<trackerVars, processorVars, fnVars, now, returned, pipeline,
                   lastRecord, completions, served, undiscovered, ring, draining,
                   produced, taken, lastExec, lostExit, applied, localVars>>

\* select!: ctrl_c() completed; break, and main returns Ok(())
LoopBreak ==
    /\ mainloop.pc = "select"
    /\ mainloop.sigint
    /\ mainloop' = [mainloop EXCEPT !.pc = "stopped", !.sigint = FALSE,
                                    !.exit_code = Some(0)]
    /\ lastStep' = [op |-> "break"]
    /\ UNCHANGED <<trackerVars, processorVars, fnVars, now, returned, pipeline,
                   lastRecord, completions, served, undiscovered, ring, draining,
                   produced, taken, lastExec, lostExit, applied, localVars>>

NextLoop ==
    \/ LoopTick
    \/ LoopFireExec
    \/ LoopFireExit
    \/ LoopFireMore
    \/ LoopSleep
    \/ LoopTake
    \/ LoopDelivered
    \/ LoopReturn
    \/ LoopCleanup
    \/ Sigint
    \/ LoopBreak

SpecLoop == InitPipeline /\ [][NextLoop]_vars

\* a handler that has been entered runs on (the next record is taken, the
\* delivery command ends, process_events returns on an empty ring), and the
\* select! does not pass over a ready ctrl_c() branch again and again
LoopHandler == LoopTake \/ LoopDelivered \/ LoopReturn

\* a step of LoopHandler is possible exactly when the loop is inside a handler
HandlerRuns == mainloop.pc \in {"drain", "deliver"}

\* weak fairness of LoopHandler, with HandlerRuns for ENABLED <<LoopHandler>>_vars,
\* and strong fairness of LoopBreak
SpecLoopFair ==
    /\ SpecLoop
    /\ ([]<>~HandlerRuns \/ []<><<LoopHandler>>_vars)
    /\ SF_vars(LoopBreak)

\* C24 (delivery failure is contained): a completion handed to the notifier
\* starts exactly one delivery, after the tracker removed the entry and appended
\* the completion to the history; when the delivery command cannot be run or
\* exits non-zero the notifier returns Err, no other delivery is started for that
\* completion, the tracker, the history and the caches stay as they were, the
\* records still in the ring stay there and process_events goes on with them: it
\* returns only when the ring is empty.
C24_DeliveryFailure ==
    [][/\ (mainloop.pc = "drain" /\ mainloop'.pc = "deliver") =>
              /\ Cardinality(Launched(pipeline')) = 1
              /\ returned'.some
              /\ history' = push_history(history, max_history, returned'.val)
              /\ processes' = HashMapRemove(processes, returned'.val.tgid)
              /\ ring' = Tail(ring)
       /\ (mainloop.pc = "deliver" /\ mainloop.delivery.val # "success"
               /\ mainloop'.pc # "deliver") =>
              /\ lastStep' = [op |-> "notify_returned", result |-> "Err"]
              /\ mainloop'.pc = "drain"
              /\ mainloop'.delivery = None
              /\ draining'
              /\ ring' = ring
              /\ UNCHANGED <<trackerVars, processorVars, completions>>
       /\ (mainloop.pc = "deliver" /\ mainloop.delivery.val = "success"
               /\ mainloop'.pc # "deliver") =>
              lastStep' = [op |-> "notify_returned", result |-> "Ok"]
       /\ (mainloop.pc \in {"drain", "deliver"} /\ mainloop'.pc = "select") =>
              /\ mainloop.pc = "drain"
              /\ ring = <<>>]_vars

\* a delivery command that exited non-zero has returned Err; the completion is
\* in the history and the drain stands before the next record of the ring
C24_Witness ==
    /\ lastStep = [op |-> "notify_returned", result |-> "Err"]
    /\ mainloop.pc = "drain"
    /\ draining
    /\ ring # <<>>
    /\ Len(completions) = 1
    /\ history = completions

\* C25 (cooperative shutdown): the loop is left only from the select!, with no
\* drain in progress and no delivery running, so an interrupt that arrives
\* during a drain does not abort it; a record taken while an interrupt is pending
\* is handled like any other (tracker updated, notification decided) and the
\* drain returns only on an empty ring; leaving the loop changes nothing of the
\* daemon's state, and once the loop is left nothing runs any more.
C25_CooperativeShutdown ==
    [][/\ mainloop.pc # "stopped"
       /\ mainloop'.pc = "stopped" =>
              /\ mainloop.pc = "select"
              /\ mainloop.sigint
              /\ ~draining
              /\ mainloop.delivery = None
              /\ mainloop'.exit_code = Some(0)
              /\ UNCHANGED <<trackerVars, processorVars, ring, completions>>
       /\ (mainloop.sigint /\ Len(ring') < Len(ring)) =>
              /\ mainloop.pc = "drain"
              /\ mainloop'.pc \in {"drain", "deliver"}
              /\ lastStep'.op \in {"on_exec", "on_exit"}
              /\ (lastStep'.op = "on_exit" /\ returned'.some) =>
                     /\ pipeline' # <<>>
                     /\ history' = push_history(history, max_history, returned'.val)
       /\ (mainloop.pc \in {"drain", "deliver"} /\ mainloop'.pc = "select") =>
              ring = <<>>]_vars

\* the loop was left after an interrupt that arrived during a drain, and a
\* record was taken and a completion recorded while that interrupt was pending
C25_Witness ==
    /\ mainloop.pc = "stopped"
    /\ mainloop.exit_code = Some(0)
    /\ mainloop.sig_pc = "drain"
    /\ mainloop.sig_then_took
    /\ Len(completions) >= 1
    /\ ring = <<>>

\* C23 (deliveries do not block the drain): while a delivery command is still
\* running, the next record of the ring can be taken and handled, the cleanup
\* tick can be served, and an interrupt the loop has heard can end the loop.
C23_NonBlocking ==
    mainloop.pc = "deliver" =>
        /\ ring # <<>> => ENABLED LoopTake
        /\ ENABLED LoopCleanup
        /\ mainloop.sigint => ENABLED LoopBreak

\* C26 (shutdown liveness): once the loop's ctrl_c() has an interrupt pending,
\* the loop is eventually left and main returns Ok(()), exit code 0, whatever
\* records keep arriving.
C26_ShutdownLiveness ==
    mainloop.sigint ~> (mainloop.pc = "stopped" /\ mainloop.exit_code = Some(0))

(***************************************************************************)
(* SpecRunner: executor::format_duration of the foreground wrapper, applied *)
(* to a std::time::Duration [secs, nanos].                                 *)
(***************************************************************************)
NanosPerMilli == 1000000

\* parts.join(sep)
RECURSIVE Join(_, _)
Join(parts, sep) ==
    IF parts = <<>> THEN <<>>
    ELSE IF Len(parts) = 1 THEN parts[1]
    ELSE parts[1] \o sep \o Join(Tail(parts), sep)

\* Duration::as_millis
as_millis(duration) == duration.secs * 1000 + (duration.nanos \div NanosPerMilli)

\* mutant: the seconds are pushed whether they are zero or not
runner_format_duration_keeps_seconds(duration) ==
    LET total_secs == duration.secs
        hours == total_secs \div 3600
        minutes == (total_secs % 3600) \div 60
        seconds == total_secs % 60
        p1 == IF hours > 0 THEN <<FormatU(hours) \o <<"h">>>> ELSE <<>>
        p2 == IF minutes > 0 THEN Append(p1, FormatU(minutes) \o <<"m">>) ELSE p1
        p3 == Append(p2, FormatU(seconds) \o <<"s">>)
    IN  IF total_secs = 0 THEN FormatU(as_millis(duration)) \o <<"m", "s">>
        ELSE Join(p3, <<" ">>)

\* executor::format_duration (runner.rs)
runner_format_duration(duration) ==
    LET total_secs == duration.secs
        hours == total_secs \div 3600
        minutes == (total_secs % 3600) \div 60
        seconds == total_secs % 60
        p1 == IF hours > 0 THEN <<FormatU(hours) \o <<"h">>>> ELSE <<>>
        p2 == IF minutes > 0 THEN Append(p1, FormatU(minutes) \o <<"m">>) ELSE p1
        p3 == IF seconds > 0 \/ p2 = <<>> THEN Append(p2, FormatU(seconds) \o <<"s">>)
              ELSE p2
    IN  IF total_secs = 0 THEN FormatU(as_millis(duration)) \o <<"m", "s">>
        ELSE Join(p3, <<" ">>)

RunnerSecs == {0, 1, 5, 59, 60, 65, 3599, 3600, 3605, 3660, 3665, 86400, 90061}
RunnerNanos == {0, 1, 999999, 1000000, 500000000, 999999999}

InitRunner ==
    /\ InitCommon
    /\ max_history = 1000
    /\ \E s \in RunnerSecs, n \in RunnerNanos :
           fnIn = [fn |-> "format_duration", duration |-> [secs |-> s, nanos |-> n]]

\* format_duration(duration)
FormatDuration ==
    /\ fnIn.fn = "format_duration"
    /\ ~fnOut.some
    /\ fnOut' = Some(runner_format_duration(fnIn.duration))
    /\ UNCHANGED <<trackerVars, processorVars, ghostVars, kernelVars, localVars, now, fnIn>>

NextRunner == FormatDuration

SpecRunner == InitRunner /\ [][NextRunner]_vars

\* the hour, minute and second counts of s whole seconds, each with its unit
HmsParts(s) ==
    <<[n |-> s \div 3600, unit |-> "h"],
      [n |-> (s \div 60) % 60, unit |-> "m"],
      [n |-> s % 60, unit |-> "s"]>>

NonZeroPart(part) == part.n # 0

\* the printed form of the i-th part of parts
PartText(parts, i) == FormatU(parts[i].n) \o <<parts[i].unit>>

\* C31 (foreground duration formatting): under one second the result is the
\* total milliseconds followed by "ms"; otherwise it is the non-zero ones among
\* the hours "h", minutes "m" and seconds "s" of the whole seconds, in that
\* order, separated by single spaces; 3600 s gives "1h", 60 s "1m", 65 s "1m 5s",
\* 3665 s "1h 1m 5s"; the result is never empty.
C31_FormatDuration ==
    (fnOut.some /\ fnIn.fn = "format_duration") =>
        LET d == fnIn.duration
            out == fnOut.val
            shown == SelectSeq(HmsParts(d.secs), NonZeroPart)
        IN  /\ out # <<>>
            /\ d.secs = 0 =>
                   out = FormatU(d.nanos \div NanosPerMilli) \o <<"m", "s">>
            /\ d.secs >= 1 =>
                   /\ shown # <<>>
                   /\ out = Join([i \in 1..Len(shown) |-> PartText(shown, i)], <<" ">>)
                   /\ Len(out) = Len(Join([i \in 1..Len(shown) |-> PartText(shown, i)],
                                          <<>>)) + (Len(shown) - 1)
            /\ d.secs = 3600 => out = <<"1", "h">>
            /\ d.secs = 60 => out = <<"1", "m">>
            /\ d.secs = 65 => out = <<"1", "m", " ", "5", "s">>
            /\ d.secs = 3665 => out = <<"1", "h", " ", "1", "m", " ", "5", "s">>

\* one hour and five seconds and a bit: the zero minutes are left out
C31_Witness ==
    /\ fnOut.some
    /\ fnIn.fn = "format_duration"
    /\ fnIn.duration = [secs |-> 3605, nanos |-> 999999999]
    /\ fnOut.val = <<"1", "h", " ", "5", "s">>

(***************************************************************************)
(* SpecGlob: DaemonConfig::should_ignore applied to drawn ignore lists and *)
(* command names.                                                          *)
(***************************************************************************)
ab_star_ba == <<"a", "b", "*", "b", "a">>
a_star_star == <<"a", "*", "*">>
star == <<"*">>
aba == <<"a", "b", "a">>
abba == <<"a", "b", "b", "a">>

GlobPatterns == {ls, npm_star, star_test, ab_star_ba, a_star_star, star}
GlobNames == {<<>>, ls, npm, npm_run, unittest, aba, abba, a_star_star, npm_star}
GlobLists ==
    {<<p>> : p \in GlobPatterns} \cup {<<p, q>> : p \in GlobPatterns, q \in GlobPatterns}

InitGlob ==
    /\ InitCommon
    /\ max_history = 1000
    /\ \E l \in GlobLists, c \in GlobNames :
           fnIn = [fn |-> "should_ignore", ignore_patterns |-> l, comm |-> c]

\* config.should_ignore(comm)
ShouldIgnore ==
    /\ fnIn.fn = "should_ignore"
    /\ ~fnOut.some
    /\ fnOut' = Some(should_ignore([ignore_patterns |-> fnIn.ignore_patterns], fnIn.comm))
    /\ UNCHANGED <<trackerVars, processorVars, ghostVars, kernelVars, localVars, now, fnIn>>

NextGlob == ShouldIgnore

SpecGlob == InitGlob /\ [][NextGlob]_vars

\* where the stars of pattern p are
StarsOf(p) == {i \in 1..Len(p) : p[i] = "*"}

\* the text of a one-star pattern before and after its star
BeforeStar(p) == SubSeq(p, 1, Min(StarsOf(p)) - 1)
AfterStar(p) == SubSeq(p, Min(StarsOf(p)) + 1, Len(p))

\* name starts with the text before the star and ends with the text after it
FitsAround(p, name) ==
    /\ Len(name) >= Len(BeforeStar(p))
    /\ SubSeq(name, 1, Len(BeforeStar(p))) = BeforeStar(p)
    /\ Len(name) >= Len(AfterStar(p))
    /\ SubSeq(name, Len(name) - Len(AfterStar(p)) + 1, Len(name)) = AfterStar(p)

\* C32 (glob matcher): should_ignore(name) is true iff some ignore pattern
\* matches name, a pattern with no star or with two or more stars matching only
\* the name equal to its text, a pattern with one star matching the names that
\* start with the text before the star and end with the text after it; and a
\* name matched by a one-star pattern is at least as long as the two texts
\* together.
C32_Glob ==
    (fnOut.some /\ fnIn.fn = "should_ignore") =>
        LET l == fnIn.ignore_patterns
            name == fnIn.comm
        IN  /\ fnOut.val <=>
                   \E i \in 1..Len(l) :
                       IF Cardinality(StarsOf(l[i])) = 1 THEN FitsAround(l[i], name)
                       ELSE name = l[i]
            /\ \A i \in 1..Len(l) :
                   (Cardinality(StarsOf(l[i])) = 1 /\ FitsAround(l[i], name)) =>
                       Len(name) >= Len(BeforeStar(l[i])) + Len(AfterStar(l[i]))

(***************************************************************************)
(* SpecWrapper: the foreground wrapper `nd -- command` (handle_run): the   *)
(* command has run and ended with a status after a duration; the decision  *)
(* of notification::should_notify, the notification and the exit code.     *)
(***************************************************************************)
\* mutant: always_notify is looked at before quiet
wrapper_should_notify_always_first(cfg, result, cli_threshold, quiet) ==
    IF cfg.general.always_notify THEN TRUE
    ELSE IF quiet THEN FALSE
    ELSE LET threshold == IF cli_threshold.some THEN cli_threshold.val
                          ELSE cfg.general.threshold_seconds
         IN  result.duration.secs >= threshold

\* notification::should_notify (builder.rs)
wrapper_should_notify(cfg, result, cli_threshold, quiet) ==
    IF quiet THEN FALSE
    ELSE IF cfg.general.always_notify THEN TRUE
    ELSE LET threshold == IF cli_threshold.some THEN cli_threshold.val
                          ELSE cfg.general.threshold_seconds
         IN  result.duration.secs >= threshold

\* execute_command: the ExecutionResult of a command that ended with status
\* after duration (status.code() is None for a command killed by a signal)
ExecutionResultOf(status, duration) ==
    [exit_code |-> IF status.kind = "exited" THEN status.code ELSE 1,
     duration |-> duration,
     success |-> (status.kind = "exited" /\ status.code = 0)]

\* main: ExitCode::from(code as u8)
ExitCodeFrom(code) == code % 256

\* handle_run and main's match on its result, the daemon (if one runs) taking
\* the registration, show() succeeding or not
handle_run(cli, cfg, status, duration, daemon_up, show_ok) ==
    LET result == ExecutionResultOf(status, duration)
        wanted == wrapper_should_notify(cfg, result, cli.threshold, cli.quiet)
    IN  [registered |-> daemon_up,
         completed |-> daemon_up,
         should_notify |-> wanted,
         shown |-> (wanted /\ show_ok),
         warning |-> (wanted /\ ~show_ok),
         exit |-> ExitCodeFrom(result.exit_code)]

WrapperThresholds == {None, Some(0), Some(5), Some(20)}
WrapperSecs == {0, 5, 7, 10, 20}
WrapperNanos == {0, 999999999}
WrapperStatuses ==
    {[kind |-> "exited", code |-> 0], [kind |-> "exited", code |-> 2],
     [kind |-> "exited", code |-> 255], [kind |-> "signaled", signal |-> 15]}

InitWrapper ==
    /\ InitCommon
    /\ max_history = 1000
    /\ \E quiet \in BOOLEAN, always \in BOOLEAN, th \in WrapperThresholds,
          s \in WrapperSecs, n \in WrapperNanos, st \in WrapperStatuses,
          up \in BOOLEAN :
           fnIn = [fn |-> "handle_run",
                   cli |-> [threshold |-> th, quiet |-> quiet],
                   config |-> [general |-> [threshold_seconds |-> 10,
                                            always_notify |-> always]],
                   status |-> st,
                   duration |-> [secs |-> s, nanos |-> n],
                   daemon_up |-> up]

\* handle_run(&cli)
HandleRun ==
    /\ fnIn.fn = "handle_run"
    /\ ~fnOut.some
    /\ \E show_ok \in BOOLEAN :
           fnOut' = Some(handle_run(fnIn.cli, fnIn.config, fnIn.status, fnIn.duration,
                                    fnIn.daemon_up, show_ok))
    /\ UNCHANGED <<trackerVars, processorVars, ghostVars, kernelVars, localVars, now, fnIn>>

NextWrapper == HandleRun

SpecWrapper == InitWrapper /\ [][NextWrapper]_vars

\* C33 (foreground wrapper decision): no notification is wanted when quiet is
\* set, even with always_notify; otherwise one is wanted when always_notify is
\* set, whatever the duration and the thresholds; otherwise it is wanted iff the
\* whole seconds of the duration reach the CLI threshold when one was given and
\* the configured threshold when none was.  The wrapper exits with the exit code
\* of the command, whether the notification was shown, failed or was not wanted.
C33_WrapperDecision ==
    (fnOut.some /\ fnIn.fn = "handle_run") =>
        LET out == fnOut.val
            quiet == fnIn.cli.quiet
            always == fnIn.config.general.always_notify
        IN  /\ quiet => ~out.should_notify
            /\ (~quiet /\ always) => out.should_notify
            /\ (~quiet /\ ~always /\ fnIn.cli.threshold.some) =>
                   (out.should_notify <=> fnIn.duration.secs >= fnIn.cli.threshold.val)
            /\ (~quiet /\ ~always /\ ~fnIn.cli.threshold.some) =>
                   (out.should_notify <=>
                        fnIn.duration.secs >= fnIn.config.general.threshold_seconds)
            /\ out.shown => out.should_notify
            /\ out.warning => out.should_notify
            /\ fnIn.status.kind = "exited" => out.exit = fnIn.status.code

\* 7.99 s with -t 5 against a configured 10 s: wanted; show() failed, and the
\* wrapper still exits with the command's 2
C33_Witness ==
    /\ fnOut.some
    /\ fnIn.fn = "handle_run"
    /\ ~fnIn.cli.quiet
    /\ ~fnIn.config.general.always_notify
    /\ fnIn.cli.threshold = Some(5)
    /\ fnIn.duration = [secs |-> 7, nanos |-> 999999999]
    /\ fnIn.status = [kind |-> "exited", code |-> 2]
    /\ fnOut.val.should_notify
    /\ fnOut.val.warning
    /\ fnOut.val.exit = 2

(***************************************************************************)
(* SpecThread: the probes and the drain, for a process of uid 1000 (thread *)
(* group 100) that has a second thread, task 102.  The tracepoint          *)
(* sched:sched_process_exit fires for every task that exits.               *)
(***************************************************************************)
ThreadPid == 102

\* the tracepoint sched:sched_process_exit fires for task ThreadPid of thread
\* group 100, whose leader goes on running
ThreadExit ==
    LET ctx == Ctx(ProbeUidOf(100), ThreadPid, 100, now,
                   Some(Pad(CommOf(100), COMM_LEN)), 0)
        r == sched_process_exit(ctx, Reserve(ProcessExitEventFields, TRUE))
    IN  /\ produced < MaxRecords
        /\ lastExec[100].status # "none"
        /\ ring' = IF r.submitted.some
                   THEN Append(ring, [n |-> produced + 1, data |-> r.submitted.val,
                                      note |-> [kind |-> "thread_exit"]])
                   ELSE ring
        /\ produced' = IF r.submitted.some THEN produced + 1 ELSE produced
        /\ lastStep' = [op |-> "sched_process_exit", ctx |-> ctx, ret |-> r.ret,
                        reserve_called |-> r.reserve_called, reserved |-> TRUE]
        /\ UNCHANGED <<lastExec, lostExit>>
        /\ ProbeFrame

NextThread ==
    \/ PipelineTick
    \/ SubmitExec
    \/ ThreadExit
    \/ SubmitExit
    \/ ProcessNext
    \/ ProcessEventsReturn

SpecThread == InitPipeline /\ [][NextThread]_vars

\* C36 (completion is per process): the exit of a task that is not the leader
\* of its thread group (pid # tgid) puts no record in the ring, and a record of
\* such an exit, were one handled, would leave the table as it is and produce no
\* CompletedProcess and no notification.
C36_PerProcess ==
    [][/\ (lastStep'.op = "sched_process_exit"
               /\ lastStep'.ctx.pid # lastStep'.ctx.tgid) => ring' = ring
       /\ (lastStep'.op = "on_exit" /\ lastStep'.event.pid # lastStep'.event.tgid) =>
              /\ processes' = processes
              /\ returned' = None
              /\ pipeline' = <<>>]_vars

(***************************************************************************)
(* The local daemon of the nd wrapper (src/src/daemon): a TaskRegistry     *)
(* served over the Unix socket at socket_path() with one JSON document per *)
(* line.  A daemon process runs run_server on the main task and one        *)
(* handle_client task per accepted connection; the tasks of one daemon     *)
(* share its registry and its shutdown watch channel.                      *)
(***************************************************************************)

\* TaskRegistry::new(100) in run_server
registry_max_history == 100

Reverse(s) == [i \in 1..Len(s) |-> s[Len(s) + 1 - i]]

\* iter.take(n)
Take(s, n) == IF n >= Len(s) THEN s ELSE SubSeq(s, 1, n)

\* the history file as a client of an earlier run left it: entry i of n is the
\* i-th oldest (its exit code tells the entries apart)
OldEntry(i) ==
    [command |-> "old", name |-> None, exit_code |-> i, duration |-> 1,
     success |-> (i = 0)]

HistoryFileOf(n) == [kind |-> "json", entries |-> [i \in 1..n |-> OldEntry(i)]]

\* TaskRegistry::new: the history is what the file holds when it exists, reads
\* and parses as a list of entries, and empty otherwise; it is not trimmed
TaskRegistryNew(max, file) ==
    [tasks |-> {},
     history |-> IF file.kind = "json" THEN file.entries ELSE <<>>,
     max_history |-> max]

\* tasks.insert(info.id, info): an entry of the same id is replaced
register(reg, info) ==
    [reg EXCEPT !.tasks = {t \in @ : t.id # info.id} \cup {info}]

\* tasks.get(id) as tasks.remove(id) returns it
TaskOf(reg, id) ==
    IF \E t \in reg.tasks : t.id = id
    THEN Some(CHOOSE t \in reg.tasks : t.id = id)
    ELSE None

remove_nothing(reg, id) == reg

\* the first critical section of complete: tasks.remove(id)
remove(reg, id) == [reg EXCEPT !.tasks = {t \in @ : t.id # id}]

HistoryEntryOf_always_success(task, exit_code, duration) ==
    [command |-> task.command, name |-> task.name, exit_code |-> exit_code,
     duration |-> duration, success |-> TRUE]

\* the entry complete builds from the removed task and the request
HistoryEntryOf(task, exit_code, duration) ==
    [command |-> task.command, name |-> task.name, exit_code |-> exit_code,
     duration |-> duration, success |-> (exit_code = 0)]

\* while history.len() > max_history { history.remove(0) }
RECURSIVE TrimHistory(_, _)
TrimHistory(h, max) == IF Len(h) > max THEN TrimHistory(Tail(h), max) ELSE h

\* the second critical section of complete, in memory: push, then trim
push_entry(reg, entry) ==
    [reg EXCEPT !.history = TrimHistory(Append(@, entry), reg.max_history)]

\* list_tasks: the values of the map (in no particular order)
list_tasks(reg) == reg.tasks

\* get_history: history.iter().rev().take(count)
get_history(reg, count) == Take(Reverse(reg.history), count)

\* save_history: fs::write of the whole history; its result is discarded.  A
\* write that fails leaves the file as it was or cut short (not a JSON list)
SaveOutcomes == {"ok", "unchanged", "cut"}

save_history(file, h, outcome) ==
    IF outcome = "ok" THEN [kind |-> "json", entries |-> h]
    ELSE IF outcome = "cut" THEN [kind |-> "corrupt"]
    ELSE file

\* ---- the wire
\* a line a client writes: a serialized Request (serialize_request), some other
\* UTF-8 text (the empty line included), or bytes that are not UTF-8
JsonLine(req) == [enc |-> "json", req |-> req]
TextLine == [enc |-> "text"]
BytesLine == [enc |-> "bytes"]

\* deserialize_request on the trimmed line
deserialize_request(line) == IF line.enc = "json" THEN Some(line.req) ELSE None

RegisterTask(id, command) ==
    [type |-> "RegisterTask", id |-> id, command |-> command, name |-> None, pid |-> 1]
CompleteTask(id, exit_code, duration_secs) ==
    [type |-> "CompleteTask", id |-> id, exit_code |-> exit_code,
     duration_secs |-> duration_secs]
ListTasks == [type |-> "ListTasks"]
GetHistory(count) == [type |-> "GetHistory", count |-> count]
Ping == [type |-> "Ping"]
Shutdown == [type |-> "Shutdown"]

ResponseOk == [kind |-> "Ok"]
ResponseError(msg) == [kind |-> "Error", msg |-> msg]
ResponseTasks(tasks) == [kind |-> "Tasks", tasks |-> tasks]
ResponseHistory(h) == [kind |-> "History", history |-> h]
ResponsePong == [kind |-> "Pong"]

TaskInfoOf(req) ==
    [id |-> req.id, command |-> req.command, name |-> req.name, pid |-> req.pid]

\* is_daemon_running: a connect to the socket path succeeds, that is, the path
\* is bound to a listener whose process is alive and has not left its loop
Listening(d) == daemons[d].pc = "listening"
is_daemon_running == socket.some /\ Listening(socket.val)

\* the ids of all RegisterTask requests written so far (Uuid::new_v4 in
\* handle_run gives every run of the wrapper an id of its own)
IdsOf(lines) == {lines[i].req.id : i \in {j \in 1..Len(lines) : lines[j].enc = "json"
                                       /\ lines[j].req.type = "RegisterTask"}}
UsedIds == UNION {IdsOf(conns[c].read) \cup IdsOf(conns[c].lines) : c \in ClientIds}

Alive(d) == daemons[d].pc \in {"listening", "stopping"}

\* the variables of the notification daemon, which the local daemon never
\* touches
NotifyDoneFrame ==
    UNCHANGED <<trackerVars, processorVars, ghostVars, kernelVars, fnVars, now>>

\* ---- run_server
\* the child process is running and reaches `if socket.exists() { remove_file }`
ServerRemoveStale(d) ==
    /\ daemons[d].pc = "spawned"
    /\ daemons' = [daemons EXCEPT ![d].pc = "bind"]
    /\ socket' = None
    /\ UNCHANGED <<history_file, conns, starts>>
    /\ NotifyDoneFrame

\* UnixListener::bind, then TaskRegistry::new(100) and the watch channel; bind
\* fails (and run_server returns the error) when the path exists again
ServerBind(d) ==
    /\ daemons[d].pc = "bind"
    /\ IF socket.some
       THEN /\ daemons' = [daemons EXCEPT ![d].pc = "exited"]
            /\ UNCHANGED socket
       ELSE /\ daemons' = [daemons EXCEPT
                  ![d].pc = "listening",
                  ![d].registry = Some(TaskRegistryNew(registry_max_history,
                                                       history_file)),
                  ![d].shutdown = FALSE]
            /\ socket' = Some(d)
    /\ UNCHANGED <<history_file, conns, starts>>
    /\ NotifyDoneFrame

\* the select! takes the shutdown_rx.changed() branch and the value is true
ServerBreak(d) ==
    /\ daemons[d].pc = "listening"
    /\ daemons[d].shutdown
    /\ daemons' = [daemons EXCEPT ![d].pc = "stopping"]
    /\ UNCHANGED <<socket, history_file, conns, starts>>
    /\ NotifyDoneFrame

\* after the loop: remove_file(&socket) whoever bound it, return Ok; main
\* returns, the runtime is dropped and with it every handle_client task and
\* its stream, whatever it was about to write
ServerExit(d) ==
    /\ daemons[d].pc = "stopping"
    /\ daemons' = [daemons EXCEPT ![d].pc = "exited"]
    /\ socket' = None
    /\ conns' = [c \in ClientIds |->
                   IF conns[c].daemon = d /\ conns[c].pc # "done"
                   THEN [conns[c] EXCEPT !.pc = "done", !.response = None,
                                         !.task = None]
                   ELSE conns[c]]
    /\ UNCHANGED <<history_file, starts>>
    /\ NotifyDoneFrame

\* ---- a client
\* UnixStream::connect reaches the listener bound to the path; the server's
\* accept branch spawns the handle_client task
ClientConnect(c) ==
    /\ conns[c].state = "idle"
    /\ is_daemon_running
    /\ conns' = [conns EXCEPT ![c].state = "open", ![c].daemon = socket.val]
    /\ UNCHANGED <<daemons, socket, history_file, starts>>
    /\ NotifyDoneFrame

\* the client writes one more line (at most max lines in all)
ClientSend(c, menu, max) ==
    /\ conns[c].state = "open"
    /\ conns[c].pc # "done"
    /\ conns[c].sent < max
    /\ \E line \in menu :
        /\ line.enc = "json" /\ line.req.type = "RegisterTask"
              => line.req.id \notin UsedIds
        /\ conns' = [conns EXCEPT ![c].lines = Append(@, line),
                                  ![c].sent = @ + 1]
    /\ UNCHANGED <<daemons, socket, history_file, starts>>
    /\ NotifyDoneFrame

\* the client drops its stream
ClientClose(c) ==
    /\ conns[c].state = "open"
    /\ conns' = [conns EXCEPT ![c].state = "closed"]
    /\ UNCHANGED <<daemons, socket, history_file, starts>>
    /\ NotifyDoneFrame

\* ---- handle_client
\* the request is answered without touching the registry
Answer(cn, resp) == [cn EXCEPT !.response = Some(resp), !.pc = "write"]

\* one turn of the while loop up to the response: read_line, then
\* deserialize_request and the match.  read_line fails on a line that is not
\* UTF-8 and the `?` ends the task, which drops the stream.  CompleteTask does
\* the first critical section of complete here (tasks.remove) and, when the
\* task was there, goes on to the second one in HandlerComplete
HandlerRead(c) ==
    LET cn == conns[c]
        d == cn.daemon
    IN  /\ d # 0
        /\ cn.pc = "read"
        /\ cn.lines # <<>>
        /\ Alive(d)
        /\ LET reg == daemons[d].registry.val
               line == Head(cn.lines)
               got == [cn EXCEPT !.lines = Tail(@), !.read = Append(@, line)]
               request == deserialize_request(line)
           IN  IF line.enc = "bytes"
               THEN /\ conns' = [conns EXCEPT ![c] = [got EXCEPT !.pc = "done"]]
                    /\ UNCHANGED daemons
               ELSE IF ~request.some
               THEN /\ conns' = [conns EXCEPT
                          ![c] = Answer(got, ResponseError("Invalid request"))]
                    /\ UNCHANGED daemons
               ELSE LET req == request.val
                    IN  CASE req.type = "RegisterTask" ->
                               /\ daemons' = [daemons EXCEPT ![d].registry =
                                                Some(register(reg, TaskInfoOf(req)))]
                               /\ conns' = [conns EXCEPT ![c] = Answer(got, ResponseOk)]
                          [] req.type = "CompleteTask" ->
                               /\ daemons' = [daemons EXCEPT ![d].registry =
                                                Some(remove(reg, req.id))]
                               /\ conns' = [conns EXCEPT ![c] =
                                     IF TaskOf(reg, req.id).some
                                     THEN [got EXCEPT !.pc = "complete",
                                                        !.task = TaskOf(reg, req.id)]
                                     ELSE Answer(got, ResponseOk)]
                          [] req.type = "ListTasks" ->
                               /\ conns' = [conns EXCEPT ![c] =
                                     Answer(got, ResponseTasks(list_tasks(reg)))]
                               /\ UNCHANGED daemons
                          [] req.type = "GetHistory" ->
                               /\ conns' = [conns EXCEPT ![c] =
                                     Answer(got,
                                            ResponseHistory(get_history(reg, req.count)))]
                               /\ UNCHANGED daemons
                          [] req.type = "Ping" ->
                               /\ conns' = [conns EXCEPT ![c] = Answer(got, ResponsePong)]
                               /\ UNCHANGED daemons
                          [] req.type = "Shutdown" ->
                               /\ daemons' = [daemons EXCEPT ![d].shutdown = TRUE]
                               /\ conns' = [conns EXCEPT ![c] = Answer(got, ResponseOk)]
        /\ UNCHANGED <<socket, history_file, starts>>
        /\ NotifyDoneFrame

\* the request the task is handling: the last line it read
Current(cn) == cn.read[Len(cn.read)].req

\* the second critical section of complete, under the write lock of the
\* history: push, trim, save_history; then the match arm's Response::Ok
HandlerComplete(c) ==
    LET cn == conns[c]
        d == cn.daemon
        req == Current(cn)
        entry == HistoryEntryOf(cn.task.val, req.exit_code, req.duration_secs)
        reg == push_entry(daemons[d].registry.val, entry)
    IN  /\ d # 0
        /\ cn.pc = "complete"
        /\ Alive(d)
        /\ \E outcome \in SaveOutcomes :
            /\ daemons' = [daemons EXCEPT ![d].registry = Some(reg),
                                          ![d].saved = outcome]
            /\ history_file' = save_history(history_file, reg.history, outcome)
        /\ conns' = [conns EXCEPT ![c] = Answer([cn EXCEPT !.task = None], ResponseOk)]
        /\ UNCHANGED <<socket, starts>>
        /\ NotifyDoneFrame

\* write_all and flush of the serialized response (one line); they fail when
\* the client has dropped its stream and the `?` ends the task
HandlerWrite(c) ==
    LET cn == conns[c]
    IN  /\ cn.daemon # 0
        /\ cn.pc = "write"
        /\ Alive(cn.daemon)
        /\ conns' = [conns EXCEPT ![c] =
              IF cn.state = "open"
              THEN [cn EXCEPT !.responses = Append(@, cn.response.val),
                              !.response = None, !.pc = "read"]
              ELSE [cn EXCEPT !.response = None, !.pc = "done"]]
        /\ UNCHANGED <<daemons, socket, history_file, starts>>
        /\ NotifyDoneFrame

\* read_line returns 0: the client has dropped its stream and every line was
\* read; the loop ends and the task returns Ok
HandlerEof(c) ==
    LET cn == conns[c]
    IN  /\ cn.daemon # 0
        /\ cn.pc = "read"
        /\ cn.lines = <<>>
        /\ cn.state = "closed"
        /\ Alive(cn.daemon)
        /\ conns' = [conns EXCEPT ![c].pc = "done"]
        /\ UNCHANGED <<daemons, socket, history_file, starts>>
        /\ NotifyDoneFrame

\* ---- nd daemon start (handle_daemon)
\* is_daemon_running(): say "already running" and return, or go on to spawn
StartCheck(s) ==
    /\ starts[s] = "idle"
    /\ starts' = [starts EXCEPT ![s] = IF is_daemon_running THEN "done" ELSE "spawn"]
    /\ UNCHANGED <<daemons, socket, history_file, conns>>
    /\ NotifyDoneFrame

\* Command::new(exe).env("ND_DAEMON_CHILD", "1").spawn(): a new process that
\* will run daemon_main
StartSpawn(s) ==
    /\ starts[s] = "spawn"
    /\ \E d \in DaemonIds :
        /\ daemons[d].pc = "none"
        /\ \A e \in DaemonIds : daemons[e].pc = "none" => d <= e
        /\ daemons' = [daemons EXCEPT ![d].pc = "spawned"]
    /\ starts' = [starts EXCEPT ![s] = "done"]
    /\ UNCHANGED <<socket, history_file, conns>>
    /\ NotifyDoneFrame

(***************************************************************************)
(* SpecWire: one daemon process from its start, one client that connects   *)
(* and writes up to MaxRequests lines of any kind without waiting for the  *)
(* answers, over every kind of history file the daemon can find.           *)
(***************************************************************************)
MaxRequests == 3

WireFiles ==
    {[kind |-> "absent"], [kind |-> "corrupt"], HistoryFileOf(1),
     HistoryFileOf(registry_max_history), HistoryFileOf(registry_max_history + 1)}

WireMenu ==
    {JsonLine(RegisterTask("t1", "make")), JsonLine(RegisterTask("t2", "ls")),
     JsonLine(CompleteTask("t1", 0, 5)), JsonLine(CompleteTask("t2", 1, 7)),
     JsonLine(ListTasks), JsonLine(GetHistory(1)),
     JsonLine(GetHistory(2 * registry_max_history)), JsonLine(Ping),
     TextLine, BytesLine}

WireClients == {1}

\* the child process `nd daemon start` spawned is about to run run_server
Spawned == [NoDaemon EXCEPT !.pc = "spawned"]

InitWire ==
    /\ InitNotifyDone
    /\ fnIn = [fn |-> "none"]
    /\ max_history = 1000
    /\ daemons = [d \in DaemonIds |-> IF d = 1 THEN Spawned ELSE NoDaemon]
    /\ socket = None
    /\ history_file \in WireFiles
    /\ conns = [c \in ClientIds |-> NoConn]
    /\ starts = [s \in StarterIds |-> "idle"]

NextWire ==
    \/ ServerRemoveStale(1)
    \/ ServerBind(1)
    \/ \E c \in WireClients : ClientConnect(c)
    \/ \E c \in WireClients : ClientSend(c, WireMenu, MaxRequests)
    \/ \E c \in WireClients : ClientClose(c)
    \/ \E c \in WireClients : HandlerRead(c)
    \/ \E c \in WireClients : HandlerComplete(c)
    \/ \E c \in WireClients : HandlerWrite(c)
    \/ \E c \in WireClients : HandlerEof(c)

SpecWire == InitWire /\ [][NextWire]_vars

\* the step in which the handler of client c takes a CompleteTask line
TakesComplete(c) ==
    /\ Len(conns'[c].read) = Len(conns[c].read) + 1
    /\ conns'[c].read[Len(conns'[c].read)].enc = "json"
    /\ conns'[c].read[Len(conns'[c].read)].req.type = "CompleteTask"

\* the tasks with this id in a registry
Registered(reg, id) == {t \in reg.tasks : t.id = id}

\* C34: complete(id, exit_code, duration) for a registered id takes the task
\* out of the running set and returns it, and then appends exactly one entry
\* to the history, with the task's command and name, the exit code and
\* duration of the request and success = (exit_code = 0); for an id that is
\* not registered it returns nothing and leaves the running set, the history
\* and the history file as they were; the server answers Ok either way.
C34_Complete ==
    [][\A c \in WireClients :
        LET cn == conns[c]
            after == conns'[c]
            d == cn.daemon
        IN  /\ (d # 0 /\ TakesComplete(c)) =>
                LET req == after.read[Len(after.read)].req
                    reg == daemons[d].registry.val
                    reg2 == daemons'[d].registry.val
                IN  IF Registered(reg, req.id) # {}
                    THEN /\ reg2.tasks = reg.tasks \ Registered(reg, req.id)
                         /\ after.task.some
                         /\ Registered(reg, req.id) = {after.task.val}
                         /\ after.pc = "complete"
                         /\ reg2.history = reg.history
                    ELSE /\ reg2 = reg
                         /\ history_file' = history_file
                         /\ ~after.task.some
                         /\ after.response = Some(ResponseOk)
            /\ (d # 0 /\ cn.pc = "complete" /\ after.pc = "write") =>
                LET req == cn.read[Len(cn.read)].req
                    h == daemons[d].registry.val.history
                    h2 == daemons'[d].registry.val.history
                IN  /\ Len(h2) >= 1
                    /\ h2[Len(h2)] =
                         [command |-> cn.task.val.command, name |-> cn.task.val.name,
                          exit_code |-> req.exit_code, duration |-> req.duration_secs,
                          success |-> (req.exit_code = 0)]
                    /\ \E k \in 0..Len(h) :
                         SubSeq(h2, 1, Len(h2) - 1) = SubSeq(h, k + 1, Len(h))
                    /\ daemons'[d].registry.val.tasks = daemons[d].registry.val.tasks
                    /\ after.response = Some(ResponseOk)]_vars

\* a failed task was registered, completed, and completed once more; all three
\* requests were answered and the history ends with its one entry
C34_Witness ==
    /\ conns[1].read = <<JsonLine(RegisterTask("t2", "ls")),
                         JsonLine(CompleteTask("t2", 1, 7)),
                         JsonLine(CompleteTask("t2", 1, 7))>>
    /\ conns[1].responses = <<ResponseOk, ResponseOk, ResponseOk>>
    /\ daemons[1].registry.val.tasks = {}
    /\ Len(daemons[1].registry.val.history) = registry_max_history
    /\ daemons[1].registry.val.history[registry_max_history].command = "ls"
    /\ ~daemons[1].registry.val.history[registry_max_history].success

\* the response the protocol asks for a line: what kind it is and, for a
\* history, that it is no longer than the count
Fits(line, resp) ==
    IF line.enc # "json" THEN resp = ResponseError("Invalid request")
    ELSE CASE line.req.type = "Ping" -> resp = ResponsePong
           [] line.req.type = "ListTasks" -> resp.kind = "Tasks"
           [] line.req.type = "GetHistory" ->
                resp.kind = "History" /\ Len(resp.history) <= line.req.count
           [] OTHER -> resp = ResponseOk

\* the history response being written lists the newest entries, newest first
NewestFirst(cn) ==
    LET h == daemons[cn.daemon].registry.val.history
        r == cn.response.val.history
        count == cn.read[Len(cn.read)].req.count
    IN  /\ Len(r) = (IF count < Len(h) THEN count ELSE Len(h))
        /\ \A i \in 1..Len(r) : r[i] = h[Len(h) + 1 - i]

\* on the connection of client c every line the server took has its response
\* written, the last one possibly still being worked on, and the responses
\* answer the lines in order
OnePerLine(c) ==
    LET cn == conns[c]
    IN  cn.daemon # 0 =>
          /\ cn.state = "open" =>
               Len(cn.responses) =
                 Len(cn.read) - (IF cn.pc \in {"complete", "write"} THEN 1 ELSE 0)
          /\ Len(cn.responses) <= Len(cn.read)
          /\ \A i \in 1..Len(cn.responses) : Fits(cn.read[i], cn.responses[i])
          /\ cn.pc = "write" => Fits(cn.read[Len(cn.read)], cn.response.val)
          /\ (cn.pc = "write" /\ cn.response.val.kind = "History") => NewestFirst(cn)

\* the step in which the handler of client c takes a line that is no request
TakesInvalid(c) ==
    /\ Len(conns'[c].read) = Len(conns[c].read) + 1
    /\ conns'[c].read[Len(conns'[c].read)].enc # "json"

\* C35: on each connection the server writes exactly one response line per
\* request line it received, in the order received; a line that is not a
\* valid request is answered Error("Invalid request") and leaves the
\* connection open and the registry unchanged; Ping is answered Pong,
\* ListTasks Tasks, GetHistory{count} at most count entries, newest first.
C35_WireProtocol ==
    [][\A c \in WireClients :
        /\ OnePerLine(c)'
        /\ TakesInvalid(c) =>
             /\ daemons' = daemons
             /\ history_file' = history_file
             /\ conns'[c].pc = "write"]_vars

\* the History responses client c was sent, the one being written included
HistoriesSent(c) ==
    {conns[c].responses[i].history :
        i \in {j \in 1..Len(conns[c].responses) : conns[c].responses[j].kind = "History"}}
    \cup (IF conns[c].response.some /\ conns[c].response.val.kind = "History"
          THEN {conns[c].response.val.history} ELSE {})

\* C37: from construction on, a history loaded from the history file
\* included, the in-memory history of the local daemon holds at most
\* max_history (100) entries and GetHistory never returns more than that.
C37_HistoryBound ==
    /\ \A d \in DaemonIds :
         daemons[d].registry.some =>
           Len(daemons[d].registry.val.history) <= daemons[d].registry.val.max_history
    /\ \A c \in WireClients :
         \A h \in HistoriesSent(c) : Len(h) <= registry_max_history

\* the same bound once a completion has trimmed the history
TrimmedHistoryBound ==
    \A d \in DaemonIds :
        (daemons[d].registry.some /\ daemons[d].saved # "none") =>
          Len(daemons[d].registry.val.history) <= daemons[d].registry.val.max_history

(***************************************************************************)
(* SpecServer: one daemon process and two clients whose connections are    *)
(* handled concurrently.  The clients register one task, complete it as    *)
(* often as they like and ask for shutdown; each writes up to              *)
(* MaxServerRequests lines.                                                *)
(***************************************************************************)
MaxServerRequests == 2

ServerFiles == {[kind |-> "absent"], HistoryFileOf(registry_max_history)}

ServerMenu ==
    {JsonLine(RegisterTask("t1", "make")), JsonLine(CompleteTask("t1", 0, 5)),
     JsonLine(Shutdown)}

InitServer ==
    /\ InitNotifyDone
    /\ fnIn = [fn |-> "none"]
    /\ max_history = 1000
    /\ daemons = [d \in DaemonIds |-> IF d = 1 THEN Spawned ELSE NoDaemon]
    /\ socket = None
    /\ history_file \in ServerFiles
    /\ conns = [c \in ClientIds |-> NoConn]
    /\ starts = [s \in StarterIds |-> "idle"]

NextServer ==
    \/ ServerRemoveStale(1)
    \/ ServerBind(1)
    \/ ServerBreak(1)
    \/ ServerExit(1)
    \/ \E c \in ClientIds : ClientConnect(c)
    \/ \E c \in ClientIds : ClientSend(c, ServerMenu, MaxServerRequests)
    \/ \E c \in ClientIds : HandlerRead(c)
    \/ \E c \in ClientIds : HandlerComplete(c)
    \/ \E c \in ClientIds : HandlerWrite(c)

SpecServer == InitServer /\ [][NextServer]_vars

\* the history entries of the task registered with this command
HistoryOf(h, command) == {i \in 1..Len(h) : h[i].command = command}

\* C38: however the handlers of concurrent connections interleave, a
\* registered task contributes at most one history entry whatever the number
\* of CompleteTask requests that name it; a task is never in the running set
\* and in the history at once; and when the last write of the history file
\* succeeded, the file holds the in-memory history.
C38_ExactlyOnce ==
    \A d \in DaemonIds :
        daemons[d].registry.some =>
          LET reg == daemons[d].registry.val
          IN  /\ Cardinality(HistoryOf(reg.history, "make")) <= 1
              /\ ~(/\ \E t \in reg.tasks : t.command = "make"
                   /\ HistoryOf(reg.history, "make") # {})
              /\ daemons[d].saved = "ok" =>
                   history_file = [kind |-> "json", entries |-> reg.history]

\* client 2's CompleteTask for the task ran between the two critical sections
\* of client 1's: client 1 holds the removed task and has not pushed yet,
\* client 2 found nothing to remove and is about to answer
C38_Witness ==
    /\ conns[1].pc = "complete"
    /\ conns[1].task.some
    /\ conns[2].pc = "write"
    /\ conns[2].read = <<JsonLine(CompleteTask("t1", 0, 5))>>
    /\ conns[2].response = Some(ResponseOk)

\* the Shutdown lines the handler of client c has taken
ShutdownsRead(c) ==
    {i \in 1..Len(conns[c].read) :
        conns[c].read[i].enc = "json" /\ conns[c].read[i].req.type = "Shutdown"}

ServerGone ==
    daemons[1].pc = "exited" => (socket = None /\ ~is_daemon_running)

(***************************************************************************)
(* SpecStart: two `nd daemon start` invocations, the daemon processes they *)
(* spawn, and two clients that register a task or list the tasks (up to    *)
(* MaxStartRequests lines each) with whichever daemon the path leads to.   *)
(***************************************************************************)
MaxStartRequests == 1

StartMenu == {JsonLine(RegisterTask("t1", "make")), JsonLine(ListTasks)}

InitStart ==
    /\ InitCommon
    /\ fnIn = [fn |-> "none"]
    /\ max_history = 1000

NextStart ==
    \/ \E s \in StarterIds : StartCheck(s)
    \/ \E s \in StarterIds : StartSpawn(s)
    \/ \E d \in DaemonIds : ServerRemoveStale(d)
    \/ \E d \in DaemonIds : ServerBind(d)
    \/ \E c \in ClientIds : ClientConnect(c)
    \/ \E c \in ClientIds : ClientSend(c, StartMenu, MaxStartRequests)
    \/ \E c \in ClientIds : HandlerRead(c)
    \/ \E c \in ClientIds : HandlerWrite(c)

SpecStart == InitStart /\ [][NextStart]_vars

\* C40: however `nd daemon start` invocations interleave, at most one daemon
\* process serves the socket path, and no start takes the socket away from a
\* daemon that is serving it: a daemon in its accept loop is the one the
\* path is bound to.
C40_SingleDaemon ==
    /\ Cardinality({d \in DaemonIds : Listening(d)}) <= 1
    /\ \A d \in DaemonIds : Listening(d) => socket = Some(d)

\* a start that finds the daemon listening spawns nothing
NoSpawnWhenListening ==
    [][\A s \in StarterIds :
        (starts[s] = "idle" /\ starts'[s] # "idle" /\ is_daemon_running) =>
            starts'[s] = "done" /\ daemons' = daemons]_vars

====
